---- MODULE Spec2Model ----
(***************************************************************************)
(* Decision engine of the teraverse dungeon agent: the combat kernel       *)
(* (applyRoundOutcome / applyDamage / updateCharges), the expectimax       *)
(* search of DPAlgorithm, the state evaluators and the decision entry      *)
(* pickAction.                                                             *)
(*                                                                         *)
(* Numbers.  The engine computes with IEEE doubles.  Healths, armors,      *)
(* attacks, defences and charges are integers here, as in the game's       *)
(* payloads.  Search values are kept as exact rationals q + r/Denom        *)
(* (0 <= r < Denom) together with a flag for -Infinity; the probabilities  *)
(* 1/1, 1/2, 1/3 of at most six plies divide Denom = 6^6 exactly.          *)
(***************************************************************************)
EXTENDS Integers, Sequences, FiniteSets, TLC

VARIABLES state, config, memo, result, node, walk

vars == <<state, config, memo, result, node, walk>>

-----------------------------------------------------------------------------
(* Small helpers *)

Min(a, b) == IF a < b THEN a ELSE b

Max(a, b) == IF a > b THEN a ELSE b

-----------------------------------------------------------------------------
(* MoveType and the enumeration order rock, paper, scissor *)

MoveType == {"rock", "paper", "scissor"}

MoveOrder == <<"rock", "paper", "scissor">>

getStats(f, m) == f[m]

(* state.enemies[state.currentEnemyIndex]: the index is 0-based in the code *)
hasEnemy(s) == s.currentEnemyIndex >= 0 /\ s.currentEnemyIndex < Len(s.enemies)

currentEnemy(s) == s.enemies[s.currentEnemyIndex + 1]

-----------------------------------------------------------------------------
(* Combat kernel *)

(* applyDamage with the health left unfloored *)
applyDamageNoFloor(fighter, incoming, armorGain) ==
  LET a1     == Min(fighter.armor.current + armorGain, fighter.armor.max)
      absorb == Min(a1, incoming)
  IN [fighter EXCEPT !.armor.current = a1 - absorb,
                     !.health.current = fighter.health.current - (incoming - absorb)]

(* applyDamage with the armor cap raised by a gain that exceeds it *)
applyDamageRaisingMax(fighter, incoming, armorGain) ==
  LET a1     == fighter.armor.current + armorGain
      absorb == IF a1 > 0 /\ incoming > 0 THEN Min(a1, incoming) ELSE 0
      dmg    == incoming - absorb
      hp     == IF dmg > 0 THEN Max(0, fighter.health.current - dmg)
                ELSE fighter.health.current
  IN [fighter EXCEPT !.armor = [current |-> a1 - absorb,
                                max |-> Max(fighter.armor.max, a1)],
                     !.health.current = hp]

applyDamage(fighter, incoming, armorGain) ==
  LET a1     == Min(fighter.armor.current + armorGain, fighter.armor.max)
      absorb == IF a1 > 0 /\ incoming > 0 THEN Min(a1, incoming) ELSE 0
      dmg    == incoming - absorb
      hp     == IF dmg > 0 THEN Max(0, fighter.health.current - dmg)
                ELSE fighter.health.current
  IN [fighter EXCEPT !.armor.current = a1 - absorb, !.health.current = hp]

(* the used move losing one charge whatever it holds *)
usedChargeMinusOne(c) == c - 1

usedCharge(c) == IF c > 1 THEN c - 1 ELSE IF c = 1 THEN -1 ELSE c

(* regeneration without the cap at 3 *)
regenChargeUncapped(c) == c + 1

(* regeneration that leaves an exhausted move exhausted *)
regenChargeNoRecovery(c) == IF c >= 0 /\ c < 3 THEN c + 1 ELSE c

regenCharge(c) == IF c = -1 THEN 0 ELSE IF c >= 0 /\ c < 3 THEN c + 1 ELSE c

updateCharges(f, used) ==
  LET upd(m) == IF m = used THEN usedCharge(f[m].currentCharges)
                ELSE regenCharge(f[m].currentCharges)
  IN [f EXCEPT !.rock.currentCharges    = upd("rock"),
               !.paper.currentCharges   = upd("paper"),
               !.scissor.currentCharges = upd("scissor")]

(* the cycle turned the other way *)
playerWinsReversed(pMove, eMove) ==
  \/ pMove = "scissor" /\ eMove = "rock"
  \/ pMove = "rock"    /\ eMove = "paper"
  \/ pMove = "paper"   /\ eMove = "scissor"

playerWins(pMove, eMove) ==
  \/ pMove = "rock"    /\ eMove = "scissor"
  \/ pMove = "paper"   /\ eMove = "rock"
  \/ pMove = "scissor" /\ eMove = "paper"

(* the round with the damage taken before the armor is gained *)
applyRoundOutcomeDamageFirst(s, pMove, eMove) ==
  LET p      == s.player
      e      == currentEnemy(s)
      tie    == pMove = eMove
      pWins  == ~tie /\ playerWins(pMove, eMove)
      dmgToE == IF tie \/ pWins THEN p[pMove].currentATK ELSE 0
      dmgToP == IF tie \/ ~pWins THEN e[eMove].currentATK ELSE 0
      armorGainP == IF tie \/ pWins THEN p[pMove].currentDEF ELSE 0
      armorGainE == IF tie \/ ~pWins THEN e[eMove].currentDEF ELSE 0
      p2     == updateCharges(applyDamage(applyDamage(p, dmgToP, 0), 0, armorGainP), pMove)
      e2     == updateCharges(applyDamage(applyDamage(e, dmgToE, 0), 0, armorGainE), eMove)
  IN [s EXCEPT !.player = p2, !.enemies[s.currentEnemyIndex + 1] = e2]

applyRoundOutcome(s, pMove, eMove) ==
  LET p      == s.player
      e      == currentEnemy(s)
      pStats == getStats(p, pMove)
      eStats == getStats(e, eMove)
      tie    == pMove = eMove
      pWins  == ~tie /\ playerWins(pMove, eMove)
      dmgToE == IF tie \/ pWins THEN pStats.currentATK ELSE 0
      dmgToP == IF tie \/ ~pWins THEN eStats.currentATK ELSE 0
      armorGainP == IF tie \/ pWins THEN pStats.currentDEF ELSE 0
      armorGainE == IF tie \/ ~pWins THEN eStats.currentDEF ELSE 0
      p2     == updateCharges(applyDamage(p, dmgToP, armorGainP), pMove)
      e2     == updateCharges(applyDamage(e, dmgToE, armorGainE), eMove)
  IN [s EXCEPT !.player = p2, !.enemies[s.currentEnemyIndex + 1] = e2]

(* the index advanced after every round *)
advanceEnemyAlways(s) ==
  IF hasEnemy(s) THEN [s EXCEPT !.currentEnemyIndex = s.currentEnemyIndex + 1] ELSE s

(* calculateExpectedValue, lines 314-317: the caller advances the index *)
advanceEnemy(s) ==
  IF hasEnemy(s) /\ currentEnemy(s).health.current <= 0
  THEN [s EXCEPT !.currentEnemyIndex = s.currentEnemyIndex + 1]
  ELSE s

(* GigaverseActionType of the three combat moves, in enumeration order *)
MoveActions == <<"MOVE_ROCK", "MOVE_PAPER", "MOVE_SCISSOR">>

(* the mapping shifted by one move *)
actionToMoveTypeShifted(act) ==
  IF act = "MOVE_ROCK" THEN "paper"
  ELSE IF act = "MOVE_PAPER" THEN "scissor"
  ELSE "rock"

actionToMoveType(act) ==
  IF act = "MOVE_ROCK" THEN "rock"
  ELSE IF act = "MOVE_PAPER" THEN "paper"
  ELSE "scissor"

getCombatActions(s) ==
  SelectSeq(MoveActions,
            LAMBDA a : s.player[actionToMoveType(a)].currentCharges > 0)

(* calculateExpectedValue, lines 300-304: the enemy's replies *)
enemyMoves(enemy) ==
  LET charged == SelectSeq(MoveOrder, LAMBDA m : enemy[m].currentCharges > 0)
  IN IF Len(charged) = 0 THEN <<"rock">> ELSE charged

(* The raw scores of estimateEnemyMoveDistribution (the build with the     *)
(* softmax opponent), in tenths, one per enemy move in enumeration order: *)
(* 1.0 * dmgToPlayer - 0.6 * dmgToEnemy + 0.4 * armorGainEnemy after one   *)
(* round on a clone.  The probability of move i is                        *)
(* exp(raw[i] / 0.8) / sum, so two moves have the same probability        *)
(* exactly when their raw scores are equal.                               *)
estimateEnemyMoveScores(s, myMove) ==
  LET moves == enemyMoves(currentEnemy(s))
  IN [i \in 1..Len(moves) |->
        LET clone       == applyRoundOutcome(s, myMove, moves[i])
            dmgToPlayer == Max(0, s.player.health.current
                                    - clone.player.health.current)
            dmgToEnemy  == Max(0, currentEnemy(s).health.current
                                    - clone.enemies[clone.currentEnemyIndex + 1].health.current)
            armorGainEnemy == clone.enemies[clone.currentEnemyIndex + 1].armor.current
                                - currentEnemy(s).armor.current
        IN (10 * dmgToPlayer) - (6 * dmgToEnemy) + (4 * armorGainEnemy)]

-----------------------------------------------------------------------------
(* The round of the loot micro-simulation (lootEvaluate.ts), which has its *)
(* own copy of the kernel: the enemy is applied first, both used charges   *)
(* are decremented, then the unused moves of both fighters regenerate.     *)

SimRounds == 3

pickGreedyMove(f) ==
  LET val(m) == f[m].currentATK
      ok(m)  == f[m].currentCharges > 0
      b1 == IF ok("rock") THEN "rock" ELSE "null"
      b2 == IF ok("paper") /\ (b1 = "null" \/ val("paper") > val(b1))
            THEN "paper" ELSE b1
      b3 == IF ok("scissor") /\ (b2 = "null" \/ val("scissor") > val(b2))
            THEN "scissor" ELSE b2
  IN b3

(* pickGreedyMove(f) || "rock" *)
greedyOrRock(f) == IF pickGreedyMove(f) = "null" THEN "rock" ELSE pickGreedyMove(f)

(* the damage taken before the armor is gained *)
simApplyDamageGainLast(f, incoming, armorGain) ==
  LET absorb == IF f.armor.current > 0 /\ incoming > 0
                THEN Min(f.armor.current, incoming) ELSE 0
      dmg    == incoming - absorb
  IN [f EXCEPT !.armor.current = Min(f.armor.current - absorb + armorGain, f.armor.max),
               !.health.current = IF dmg > 0 THEN Max(0, f.health.current - dmg)
                                  ELSE f.health.current]

simApplyDamage(f, incoming, armorGain) ==
  LET a1     == Min(f.armor.current + armorGain, f.armor.max)
      absorb == IF a1 > 0 /\ incoming > 0 THEN Min(a1, incoming) ELSE 0
      dmg    == incoming - absorb
  IN [f EXCEPT !.armor.current = a1 - absorb,
               !.health.current = IF dmg > 0 THEN Max(0, f.health.current - dmg)
                                  ELSE f.health.current]

(* the last charge spent leaving the move at 0 *)
decChargeToZero(c) == IF c > 1 THEN c - 1 ELSE IF c = 1 THEN 0 ELSE c

decCharge(c) == IF c > 1 THEN c - 1 ELSE IF c = 1 THEN -1 ELSE c

simRegen(f, used) ==
  LET upd(m) == IF m = used THEN decCharge(f[m].currentCharges)
                ELSE LET c == f[m].currentCharges
                     IN IF c = -1 THEN 0 ELSE IF c >= 0 /\ c < 3 THEN c + 1 ELSE c
  IN [f EXCEPT !.rock.currentCharges    = upd("rock"),
               !.paper.currentCharges   = upd("paper"),
               !.scissor.currentCharges = upd("scissor")]

simApplyRound(s, pMove, eMove) ==
  IF ~hasEnemy(s) THEN s
  ELSE
  LET p      == s.player
      e      == currentEnemy(s)
      tie    == pMove = eMove
      pWins  == ~tie /\ playerWins(pMove, eMove)
      dmgToE == IF tie \/ pWins THEN p[pMove].currentATK ELSE 0
      dmgToP == IF tie \/ ~pWins THEN e[eMove].currentATK ELSE 0
      armorGainP == IF tie \/ pWins THEN p[pMove].currentDEF ELSE 0
      armorGainE == IF tie \/ ~pWins THEN e[eMove].currentDEF ELSE 0
      e2     == simRegen(simApplyDamage(e, dmgToE, armorGainE), eMove)
      p2     == simRegen(simApplyDamage(p, dmgToP, armorGainP), pMove)
  IN [s EXCEPT !.player = p2, !.enemies[s.currentEnemyIndex + 1] = e2]

-----------------------------------------------------------------------------
(* Search values: q + r/Denom, or -Infinity *)

MinHorizon == 6

Denom == 6 * 6 * 6 * 6 * 6 * 6

NegInf == [inf |-> TRUE, q |-> 0, r |-> 0]

Fin(x) == [inf |-> FALSE, q |-> x, r |-> 0]

(* a + b in IEEE arithmetic without +Infinity: -Infinity absorbs *)
VAdd(a, b) ==
  IF a.inf \/ b.inf THEN NegInf
  ELSE [inf |-> FALSE, q |-> a.q + b.q + ((a.r + b.r) \div Denom),
        r |-> (a.r + b.r) % Denom]

(* a * (1.0 / k), k in 1..3 *)
VScale(a, k) ==
  IF a.inf THEN NegInf
  ELSE [inf |-> FALSE, q |-> a.q \div k,
        r |-> (((a.q % k) * Denom) + a.r) \div k]

(* the comparison with its operands exchanged *)
VLessExchanged(a, b) ==
  IF b.inf THEN ~a.inf
  ELSE IF a.inf THEN FALSE
  ELSE b.q < a.q \/ (b.q = a.q /\ b.r < a.r)

(* a < b *)
VLess(a, b) ==
  IF a.inf THEN ~b.inf
  ELSE IF b.inf THEN FALSE
  ELSE a.q < b.q \/ (a.q = b.q /\ a.r < b.r)

-----------------------------------------------------------------------------
(* State evaluators *)

(* defaultEvaluate, first definition of defaultEvaluate.ts *)
defaultEvaluate(s) ==
  LET p == s.player
      alive == hasEnemy(s) /\ currentEnemy(s).health.current > 0
      e == currentEnemy(s)
      enemyTerm == IF alive
                   THEN (e.health.max - e.health.current) * 100
                        + (e.armor.max - e.armor.current) * 40
                   ELSE 20000
      moveTerm(m) == (IF p[m].currentCharges > 0 THEN p[m].currentCharges * 20 ELSE 0)
                     - (IF p[m].currentCharges = -1 THEN 500
                        ELSE IF p[m].currentCharges = 0 THEN 100 ELSE 0)
      stats(m) == p[m].currentATK + p[m].currentDEF
  IN IF p.health.current <= 0 THEN -1000000
     ELSE s.currentEnemyIndex * 50000
          + p.health.current * 100 + p.armor.current * 50
          + enemyTerm
          + moveTerm("rock") + moveTerm("paper") + moveTerm("scissor")
          + (stats("rock") + stats("paper") + stats("scissor")) * 50

(* defaultEvaluate, second definition of defaultEvaluate.ts (defensive tuning) *)
defaultEvaluateDefensive(s) ==
  LET p == s.player
      e == currentEnemy(s)
      armorPenalty == IF p.armor.current = 0 THEN 5000
                      ELSE IF 5 * p.armor.current < p.armor.max THEN 2000 ELSE 0
      moveTerm(m) == (IF p[m].currentCharges > 0 THEN p[m].currentCharges * 20 ELSE 0)
                     - (IF p[m].currentCharges = -1 THEN 800
                        ELSE IF p[m].currentCharges = 0 THEN 200 ELSE 0)
      stats(m) == p[m].currentATK + p[m].currentDEF
      threat(m) == IF e[m].currentCharges > 0 THEN e[m].currentATK * 30 ELSE 0
  IN IF p.health.current <= 0 THEN -1000000
     ELSE IF ~hasEnemy(s) \/ e.health.current <= 0
     THEN s.currentEnemyIndex * 100000 + 50000 + p.health.current * 200
     ELSE s.currentEnemyIndex * 100000
          + p.health.current * 300 + p.armor.current * 100 - armorPenalty
          + (e.health.max - e.health.current) * 100
          + (e.armor.max - e.armor.current) * 40
          + moveTerm("rock") + moveTerm("paper") + moveTerm("scissor")
          + (stats("rock") + stats("paper") + stats("scissor")) * 40
          - (threat("rock") + threat("paper") + threat("scissor"))

(* this.config.evaluateFn(state) *)
evaluateFn(cfg, s) ==
  IF cfg.evaluateFn = "defensive" THEN defaultEvaluateDefensive(s)
  ELSE defaultEvaluate(s)

-----------------------------------------------------------------------------
(* Memoization key *)

moveKey(f, m) == <<f[m].currentCharges, f[m].currentATK, f[m].currentDEF>>

fighterKey(f) ==
  <<f.health.current, f.armor.current,
    moveKey(f, "rock"), moveKey(f, "paper"), moveKey(f, "scissor")>>

buildStateKey(s, depth) ==
  IF ~hasEnemy(s) \/ currentEnemy(s).health.current <= 0
  THEN <<"END", depth, s.player.health.current, s.currentEnemyIndex, <<>>, <<>>>>
  ELSE <<"VS", depth, s.currentEnemyIndex, 0,
         fighterKey(s.player), fighterKey(currentEnemy(s))>>

-----------------------------------------------------------------------------
(* Expectimax search.  Results carry the memo map, which the code mutates *)
(* in place while it recurses.  The loops over at most three actions and  *)
(* three replies are written out, one operator per iteration, each handing *)
(* the results so far to the next; an iteration that does not exist       *)
(* repeats the result before it.  A test of the form {x1, x2, x3}         *)
(* \subseteq S only fixes the order in which the iterations are evaluated. *)

DeathThreshold == -900000

RECURSIVE expectimaxSearch(_, _, _, _)

(* nextState for the i-th enemy move *)
nextState(s, myMove, replies, i) ==
  advanceEnemy(applyRoundOutcome(s, myMove, replies[i]))

(* the end of the loop over enemy moves: s1, s2, s3 are the subResults, n *)
(* the number of enemy moves, lethalOverride the build's lethal test      *)
afterReplies(lethalOverride, n, s1, s2, s3) ==
  LET lethal(sub) == VLess(sub.bestValue, Fin(DeathThreshold))
      t1 == VScale(s1.bestValue, n)
      t2 == IF n >= 2 THEN VAdd(t1, VScale(s2.bestValue, n)) ELSE t1
      totalWeightedScore ==
            IF n >= 3 THEN VAdd(t2, VScale(s3.bestValue, n)) ELSE t2
      deathDetected == lethal(s1) \/ lethal(s2) \/ lethal(s3)
      deathScore == IF lethal(s3) THEN s3.bestValue
                    ELSE IF lethal(s2) THEN s2.bestValue ELSE s1.bestValue
  IN IF {s1.bestAction, s2.bestAction, s3.bestAction} \subseteq STRING
     THEN [value |-> IF lethalOverride /\ deathDetected
                     THEN deathScore ELSE totalWeightedScore,
           memo |-> s3.memo]
     ELSE [value |-> NegInf, memo |-> s3.memo]

(* third iteration of the loop over enemy moves *)
afterReply2(cfg, s, myMove, replies, depth, s1, s2) ==
  afterReplies(cfg.lethalOverride, Len(replies), s1, s2,
    IF Len(replies) >= 3
    THEN expectimaxSearch(cfg, nextState(s, myMove, replies, 3), depth - 1, s2.memo)
    ELSE s2)

(* second iteration of the loop over enemy moves *)
afterReply1(cfg, s, myMove, replies, depth, s1) ==
  afterReply2(cfg, s, myMove, replies, depth, s1,
    IF Len(replies) >= 2
    THEN expectimaxSearch(cfg, nextState(s, myMove, replies, 2), depth - 1, s1.memo)
    ELSE s1)

calculateExpectedValue(cfg, s, myAct, depth, m) ==
  IF ~hasEnemy(s) \/ currentEnemy(s).health.current <= 0
  THEN [value |-> Fin(evaluateFn(cfg, s)), memo |-> m]
  ELSE afterReply1(cfg, s, actionToMoveType(myAct), enemyMoves(currentEnemy(s)), depth,
         expectimaxSearch(cfg,
           nextState(s, actionToMoveType(myAct), enemyMoves(currentEnemy(s)), 1),
           depth - 1, m))

(* the update of bestVal and bestAct with >= in the place of > *)
keepBestOrLater(best, e, act) ==
  IF ~VLess(e.value, best.bestVal) THEN [bestVal |-> e.value, bestAct |-> act]
  ELSE best

(* bestVal and bestAct after an iteration of the loop over the actions *)
keepBest(best, e, act) ==
  IF VLess(best.bestVal, e.value) THEN [bestVal |-> e.value, bestAct |-> act]
  ELSE best

(* the end of the loop over the actions: e1, e2, e3 are the expected values *)
(* with the memo after each, key the memo key of the node                  *)
afterActions(myActions, key, e1, e2, e3) ==
  LET n == Len(myActions)
      b1 == keepBest([bestVal |-> NegInf, bestAct |-> "null"], e1, myActions[1])
      b2 == IF n >= 2 THEN keepBest(b1, e2, myActions[2]) ELSE b1
      b3 == IF n >= 3 THEN keepBest(b2, e3, myActions[3]) ELSE b2
  IN IF {e1.value.inf, e2.value.inf, e3.value.inf} \subseteq BOOLEAN
     THEN [bestValue |-> b3.bestVal, bestAction |-> b3.bestAct,
           memo |-> (key :> [bestValue |-> b3.bestVal,
                             bestAction |-> b3.bestAct]) @@ e3.memo]
     ELSE [bestValue |-> NegInf, bestAction |-> "null", memo |-> e3.memo]

(* third iteration of the loop over the actions *)
afterAction2(cfg, s, depth, myActions, key, e1, e2) ==
  afterActions(myActions, key, e1, e2,
    IF Len(myActions) >= 3
    THEN calculateExpectedValue(cfg, s, myActions[3], depth, e2.memo)
    ELSE e2)

(* second iteration of the loop over the actions *)
afterAction1(cfg, s, depth, myActions, key, e1) ==
  afterAction2(cfg, s, depth, myActions, key, e1,
    IF Len(myActions) >= 2
    THEN calculateExpectedValue(cfg, s, myActions[2], depth, e1.memo)
    ELSE e1)

expectimaxSearch(cfg, s, depth, m) ==
  IF depth <= 0 \/ s.player.health.current <= 0
     \/ s.currentEnemyIndex >= Len(s.enemies)
  THEN [bestValue |-> Fin(evaluateFn(cfg, s)), bestAction |-> "null", memo |-> m]
  ELSE IF buildStateKey(s, depth) \in DOMAIN m
  THEN [bestValue |-> m[buildStateKey(s, depth)].bestValue,
        bestAction |-> m[buildStateKey(s, depth)].bestAction, memo |-> m]
  ELSE IF Len(getCombatActions(s)) = 0
  THEN [bestValue |-> NegInf, bestAction |-> "MOVE_ROCK", memo |-> m]
  ELSE afterAction1(cfg, s, depth, getCombatActions(s), buildStateKey(s, depth),
         calculateExpectedValue(cfg, s, getCombatActions(s)[1], depth, m))

-----------------------------------------------------------------------------
(* Loot selection.  Scores are kept in thousandths (LootScale), which the  *)
(* one-decimal multipliers of getLootSynergyScore divide exactly.          *)

LootScale == 10 * 10 * 10

LootTypes == {"Heal", "AddMaxHealth", "AddMaxArmor",
              "UpgradeRock", "UpgradePaper", "UpgradeScissor"}

getLootSynergyScore(s, loot) ==
  LET p       == s.player
      rawType == loot.boonTypeString
      val1    == loot.selectedVal1
      val2    == loot.selectedVal2
      isMaxHP == rawType = "AddMaxHealth"
      isArmor == rawType = "AddMaxArmor"
      isHeal  == rawType = "Heal" /\ ~isMaxHP
      isRock  == rawType = "UpgradeRock"
      isPaper == rawType = "UpgradePaper"
      isScissor == rawType = "UpgradeScissor"
      missing == p.health.max - p.health.current
      urgency == IF 10 * p.health.current < 3 * p.health.max THEN 50
                 ELSE IF 10 * p.health.current < 5 * p.health.max THEN 10
                 ELSE 1
      isAtk   == val1 > 0
      val     == IF isAtk THEN val1 ELSE val2
      penalty10 == IF val = 1 THEN 1 ELSE 10
      mst     == IF isRock THEN p.rock ELSE IF isPaper THEN p.paper ELSE p.scissor
      charges == mst.currentCharges
      currentStat == IF isAtk THEN mst.currentATK ELSE mst.currentDEF
      build10 == IF isRock \/ isPaper THEN 15 ELSE 7
      armorFull == p.armor.max > 0 /\ 10 * p.armor.current > 9 * p.armor.max
      useful10 == IF isAtk THEN (IF armorFull THEN 18 ELSE 12)
                  ELSE (IF currentStat < p.armor.max THEN 15 ELSE 8)
      power   == val * val
      base1000 == IF charges > 0
                  THEN power * 18 * Min(charges, 5) * build10 * useful10 * 10
                       + currentStat * 2 * LootScale
                  ELSE power * 18 * build10 * 100
  IN IF isHeal
     THEN IF missing < 1 THEN -999999 * LootScale
          ELSE IF 10 * p.health.current > 9 * p.health.max THEN -5000 * LootScale
          ELSE Min(missing, val1) * urgency * 5 * LootScale
     ELSE IF isMaxHP
     THEN (val1 * 150 + (IF val1 >= 4 THEN 500 ELSE 0)) * LootScale
     ELSE IF isArmor
     THEN (val1 * 120 + (IF val1 >= 3 THEN 400 ELSE 0)) * LootScale
     ELSE IF isRock \/ isPaper \/ isScissor
     THEN (base1000 * penalty10) \div 10
     ELSE 0

RECURSIVE lootLoopLeast(_, _, _)

(* the loop of pickBestLoot keeping the lowest score instead of the highest *)
lootLoopLeast(s, i, acc) ==
  IF i >= Len(s.lootOptions) THEN acc
  ELSE LET score == getLootSynergyScore(s, s.lootOptions[i + 1])
           lower == acc.bestScore.inf \/ score < acc.bestScore.v
       IN lootLoopLeast(s, i + 1,
            IF lower THEN [bestScore |-> [inf |-> FALSE, v |-> score], bestIdx |-> i]
            ELSE acc)

RECURSIVE lootLoop(_, _, _)

(* the loop of pickBestLoot; i is the 0-based index *)
lootLoop(s, i, acc) ==
  IF i >= Len(s.lootOptions) THEN acc
  ELSE LET score == getLootSynergyScore(s, s.lootOptions[i + 1])
           better == acc.bestScore.inf \/ score > acc.bestScore.v
       IN lootLoop(s, i + 1,
            IF better THEN [bestScore |-> [inf |-> FALSE, v |-> score], bestIdx |-> i]
            ELSE acc)

(* the first offer taken whatever the scores *)
pickBestLootFirst(s) == "PICK_LOOT_ONE"

pickBestLoot(s) ==
  LET r == lootLoop(s, 0, [bestScore |-> [inf |-> TRUE, v |-> 0], bestIdx |-> 0])
  IN IF r.bestIdx = 0 THEN "PICK_LOOT_ONE"
     ELSE IF r.bestIdx = 1 THEN "PICK_LOOT_TWO"
     ELSE IF r.bestIdx = 2 THEN "PICK_LOOT_THREE"
     ELSE IF r.bestIdx = 3 THEN "PICK_LOOT_FOUR"
     ELSE "PICK_LOOT_ONE"

-----------------------------------------------------------------------------
(* Exact fractions num/den (den > 0, lowest terms) for the scores of       *)
(* combatEvaluate and evaluateLoot, which divide by health.max and weapon  *)
(* scores and multiply by decimal weights.                                  *)

Abs(x) == IF x < 0 THEN -x ELSE x

RECURSIVE GCD(_, _)

GCD(a, b) == IF b = 0 THEN a ELSE GCD(b, a % b)

Rat(n, d) == [num |-> n \div GCD(Abs(n), d), den |-> d \div GCD(Abs(n), d)]

RInt(x) == [num |-> x, den |-> 1]

RAdd(a, b) == Rat(a.num * b.den + b.num * a.den, a.den * b.den)

RSub(a, b) == Rat(a.num * b.den - b.num * a.den, a.den * b.den)

RMul(a, b) == Rat(a.num * b.num, a.den * b.den)

(* a < b, comparing whole parts first so that products stay small *)
RLess(a, b) ==
  IF a.num \div a.den # b.num \div b.den
  THEN a.num \div a.den < b.num \div b.den
  ELSE (a.num % a.den) * b.den < (b.num % b.den) * a.den

-----------------------------------------------------------------------------
(* combatEvaluate.ts *)

combatEvaluate(s) ==
  LET p == s.player
      e == currentEnemy(s)
      maxHP == Max(1, p.health.max)
      chargeBonus(m) == IF p[m].currentCharges <= 0 THEN -120
                        ELSE IF p[m].currentCharges = 1 THEN 35
                        ELSE IF p[m].currentCharges = 2 THEN 60 ELSE 90
      stats(m) == p[m].currentATK + p[m].currentDEF
      threat(m) == IF e[m].currentCharges > 0 THEN e[m].currentATK * 25 ELSE 0
      (* hpPercent < 0.35: score -= (0.35 - hpPercent) * 2000 *)
      risk == IF 20 * p.health.current < 7 * maxHP
              THEN Rat(2000 * p.health.current - 700 * maxHP, maxHP)
              ELSE RInt(0)
  IN IF p.health.current <= 0 THEN RInt(-1000000)
     ELSE IF ~hasEnemy(s) \/ e.health.current <= 0
     THEN RInt(s.currentEnemyIndex * 20000 + 35000 + p.health.current * 250)
     ELSE RAdd(RInt(s.currentEnemyIndex * 20000
                    + p.health.current * 300
                    + p.armor.current * 120
                    - (IF p.armor.current = 0 THEN 800 ELSE 0)
                    + (e.health.max - e.health.current) * 80
                    + chargeBonus("rock") + chargeBonus("paper") + chargeBonus("scissor")
                    + (stats("rock") + stats("paper") + stats("scissor")) * 30
                    - (threat("rock") + threat("paper") + threat("scissor"))),
               risk)

-----------------------------------------------------------------------------
(* lootEvaluate.ts: evaluateLoot, the exported loot valuator *)

(* applyLootToClone on a copy of the snapshot, for the canonical tags *)
(* Heal without the cap at health.max *)
applyLootToCloneUncapped(s, loot) ==
  IF loot.boonTypeString = "Heal"
  THEN [s EXCEPT !.player.health.current = @ + loot.selectedVal1]
  ELSE s

applyLootToClone(s, loot) ==
  LET p == s.player
      v1 == loot.selectedVal1
      v2 == loot.selectedVal2
      t == loot.boonTypeString
      upgraded(m) == [m EXCEPT !.currentATK = IF v1 > 0 THEN @ + v1 ELSE @,
                               !.currentDEF = IF v2 > 0 THEN @ + v2 ELSE @]
  IN IF t = "AddMaxHealth"
     THEN [s EXCEPT !.player.health =
             [max |-> p.health.max + v1,
              current |-> Min(p.health.max + v1, p.health.current + v1)]]
     ELSE IF t = "AddMaxArmor"
     THEN [s EXCEPT !.player.armor =
             [max |-> p.armor.max + v1,
              current |-> Min(p.armor.current + v1, p.armor.max + v1)]]
     ELSE IF t = "Heal"
     THEN [s EXCEPT !.player.health.current = Min(p.health.max, p.health.current + v1)]
     ELSE IF t = "UpgradeRock" THEN [s EXCEPT !.player.rock = upgraded(@)]
     ELSE IF t = "UpgradePaper" THEN [s EXCEPT !.player.paper = upgraded(@)]
     ELSE IF t = "UpgradeScissor" THEN [s EXCEPT !.player.scissor = upgraded(@)]
     ELSE IF "grantCharges" \in DOMAIN loot
     THEN [s EXCEPT
             !.player.rock.currentCharges = Min(3, @ + loot.grantCharges.rock),
             !.player.paper.currentCharges = Min(3, @ + loot.grantCharges.paper),
             !.player.scissor.currentCharges = Min(3, @ + loot.grantCharges.scissor)]
     ELSE s

(* SDV: combatEvaluate(new) - combatEvaluate(old) *)
computeStateDeltaValue(s, loot) ==
  RSub(combatEvaluate(applyLootToClone(s, loot)), combatEvaluate(s))

(* analyzeBuildPreference: the weapon preference of move m *)
weaponScore(p, m) ==
  Rat(2 * p[m].currentATK * Max(1, Min(3, p[m].currentCharges)) + p[m].currentDEF, 2)

maxWeapon(p) ==
  LET r == weaponScore(p, "rock")
      q == weaponScore(p, "paper")
      c == weaponScore(p, "scissor")
      rq == IF RLess(r, q) THEN q ELSE r
      rqc == IF RLess(rq, c) THEN c ELSE rq
  IN IF RLess(rqc, RInt(1)) THEN RInt(1) ELSE rqc

analyzeBuildPreference(s, m) ==
  Rat(weaponScore(s.player, m).num * maxWeapon(s.player).den,
      weaponScore(s.player, m).den * maxWeapon(s.player).num)

RECURSIVE runSim(_, _)

(* runSim of microSimulateLootEffect after r rounds: its result, and *)
(* the copy as the rounds leave it                                   *)
runSim(clone, r) ==
  IF r >= SimRounds \/ clone.player.health.current <= 0
     \/ clone.currentEnemyIndex >= Len(clone.enemies)
     \/ ~hasEnemy(clone)
  THEN [survived |-> clone.player.health.current > 0, roundsToKill |-> r,
        clone |-> clone]
  ELSE runSim(advanceEnemy(simApplyRound(clone, greedyOrRock(clone.player),
                                         greedyOrRock(currentEnemy(clone)))),
              r + 1)

(* baseTTK and modTTK *)
simTTK(s, res) ==
  IF res.roundsToKill = 0 /\ hasEnemy(s) /\ currentEnemy(s).health.current > 0
  THEN SimRounds + 1 ELSE res.roundsToKill

microSimulateLootEffect(s, loot) ==
  [deltaTTK |-> simTTK(s, runSim(applyLootToClone(s, loot), 0))
                  - simTTK(s, runSim(s, 0)),
   deltaSurvival |-> (IF runSim(applyLootToClone(s, loot), 0).survived THEN 1 ELSE 0)
                       - (IF runSim(s, 0).survived THEN 1 ELSE 0)]

LootFloor == -1000000000

(* Heal below full health: missingHP * healWeight + deltaSurvival * 2500 *)
healTerm(s, micro) ==
  LET currentHP == s.player.health.current
      maxHP == s.player.health.max
      healWeight == IF 10 * currentHP < 3 * Max(1, maxHP) THEN 10
                    ELSE IF 2 * currentHP < Max(1, maxHP) THEN 8 ELSE 6
  IN RInt(Max(0, maxHP - currentHP) * healWeight + micro.deltaSurvival * 2500)

(* weapon upgrades: baseWeaponValue *)
weaponTerm(s, loot, micro) ==
  LET isAtk == loot.selectedVal1 > 0
      val == IF isAtk THEN loot.selectedVal1 ELSE loot.selectedVal2
      m == IF loot.boonTypeString = "UpgradeRock" THEN "rock"
           ELSE IF loot.boonTypeString = "UpgradePaper" THEN "paper" ELSE "scissor"
      prefMult == RAdd(RInt(1), RMul(analyzeBuildPreference(s, m), Rat(1, 2)))
      base == RMul(RMul(RInt(val * val * 40), IF isAtk THEN Rat(11, 10) ELSE RInt(1)),
                   prefMult)
      boosted == RAdd(base, RInt(micro.deltaSurvival * 1500 - micro.deltaTTK * 1000))
  IN IF val = 1 THEN RMul(boosted, Rat(3, 5)) ELSE boosted

(* the part of the score added for the kind of the loot *)
lootTypeTerm(s, loot, micro) ==
  IF loot.boonTypeString = "Heal" THEN healTerm(s, micro)
  ELSE IF loot.boonTypeString = "AddMaxHealth"
  THEN RInt(loot.selectedVal1 * 180 + micro.deltaSurvival * 2000)
  ELSE IF loot.boonTypeString = "AddMaxArmor"
  THEN RInt(loot.selectedVal1 * 150 + micro.deltaSurvival * 1500)
  ELSE IF loot.boonTypeString \in {"UpgradeRock", "UpgradePaper", "UpgradeScissor"}
  THEN weaponTerm(s, loot, micro)
  ELSE RInt(0)

(* futureMult = 1 + min(0.4, remaining * 0.05); the snapshot carries no *)
(* totalRooms or currentRoomIndex, so the enemy list stands in for them  *)
futureMult(s) ==
  Rat(20 + Min(8, Max(0, Len(s.enemies) - s.currentEnemyIndex)), 20)

(* charge grants: add * 250 + deltaSurvival * 2000 *)
chargeTerm(loot, micro) ==
  IF "grantCharges" \in DOMAIN loot
  THEN RInt((loot.grantCharges.rock + loot.grantCharges.paper
               + loot.grantCharges.scissor) * 250
            + micro.deltaSurvival * 2000)
  ELSE RInt(0)

evaluateLoot(s, loot) ==
  IF loot.boonTypeString = "Heal" /\ s.player.health.current >= s.player.health.max
  THEN RInt(LootFloor)
  ELSE RMul(RAdd(RAdd(RMul(computeStateDeltaValue(s, loot), Rat(3, 2)),
                      lootTypeTerm(s, loot, microSimulateLootEffect(s, loot))),
                 chargeTerm(loot, microSimulateLootEffect(s, loot))),
            futureMult(s))

-----------------------------------------------------------------------------
(* Decision entry *)

EmptyMemo == [k \in {} |-> 0]

(* constructor: the configured horizon is raised to at least 6, and the *)
(* evaluator defaults to defaultEvaluate                                *)
DPAlgorithm(cfg) ==
  [maxHorizon |-> Max(cfg.maxHorizon, MinHorizon),
   evaluateFn |-> cfg.evaluateFn,
   lethalOverride |-> cfg.lethalOverride]

(* a pickAction that keeps the entries of earlier calls *)
memoKeep(m) == m

(* this.memo.clear() *)
memoClear(m) == EmptyMemo

(* pickAction without the MOVE_ROCK fallback for a search that found *)
(* no action                                                         *)
pickActionNoFallback(cfg, s, m) ==
  IF s.lootPhase
  THEN [action |-> pickBestLoot(s), memo |-> memoClear(m)]
  ELSE LET r == expectimaxSearch(cfg, s, cfg.maxHorizon, memoClear(m))
       IN [action |-> r.bestAction, memo |-> r.memo]

(* pickAction on an instance whose memo map is m: the action returned and *)
(* the memo map the call leaves behind                                    *)
pickAction(cfg, s, m) ==
  IF s.lootPhase
  THEN [action |-> pickBestLoot(s), memo |-> memoClear(m)]
  ELSE LET r == expectimaxSearch(cfg, s, cfg.maxHorizon, memoClear(m))
       IN [action |-> IF r.bestAction = "null" THEN "MOVE_ROCK" ELSE r.bestAction,
           memo |-> r.memo]

-----------------------------------------------------------------------------
(* Snapshots handed to the engine *)

Mv(a, d, c) == [currentATK |-> a, currentDEF |-> d, currentCharges |-> c]

(* prof: <<atk, def>> of rock, paper, scissor; ch: their charges *)
Fighter(h, hmax, ar, armax, prof, ch) ==
  [health  |-> [current |-> h, max |-> hmax],
   armor   |-> [current |-> ar, max |-> armax],
   rock    |-> Mv(prof[1][1], prof[1][2], ch[1]),
   paper   |-> Mv(prof[2][1], prof[2][2], ch[2]),
   scissor |-> Mv(prof[3][1], prof[3][2], ch[3])]

RunState(p, es, idx, loot, opts) ==
  [player |-> p, enemies |-> es, currentEnemyIndex |-> idx,
   lootPhase |-> loot, lootOptions |-> opts]

Loot(type, v1, v2) ==
  [boonTypeString |-> type, selectedVal1 |-> v1, selectedVal2 |-> v2]

MaxHealth == 2

MaxArmor == 1

PlayerProfiles ==
  {<<<<1, 0>>, <<1, 0>>, <<1, 0>>>>, <<<<2, 0>>, <<1, 1>>, <<1, 0>>>>,
   <<<<1, 0>>, <<2, 1>>, <<1, 0>>>>}

EnemyProfiles == {<<<<2, 0>>, <<1, 0>>, <<1, 1>>>>, <<<<1, 0>>, <<2, 0>>, <<2, 0>>>>}

PlayerCharges == {<<3, 3, 3>>, <<-1, 1, -1>>, <<2, 1, 1>>, <<1, 0, 3>>, <<0, -1, 0>>}

EnemyCharges == {<<3, -1, -1>>, <<3, 3, 3>>, <<1, 1, 0>>, <<0, 0, -1>>}

Players ==
  {Fighter(h, MaxHealth, 0, MaxArmor, prof, ch) :
     h \in 0..MaxHealth, prof \in PlayerProfiles, ch \in PlayerCharges}

Enemies ==
  {Fighter(2, 2, 0, MaxArmor, prof, ch) :
     prof \in EnemyProfiles, ch \in EnemyCharges}

(* combat snapshots: one living enemy; no enemy; index past the list *)
CombatRoots ==
  {RunState(p, <<e>>, 0, FALSE, <<>>) : p \in Players, e \in Enemies}
  \cup {RunState(p, <<>>, 0, FALSE, <<>>) : p \in Players}
  \cup {RunState(p, <<e>>, 1, FALSE, <<>>) :
          p \in Players, e \in {Fighter(2, 2, 0, MaxArmor, prof, <<3, 3, 3>>) :
                                  prof \in EnemyProfiles}}

LootOptions ==
  {Loot("Heal", 1, 0), Loot("AddMaxHealth", 2, 0), Loot("AddMaxArmor", 1, 0),
   Loot("UpgradeRock", 2, 0), Loot("UpgradeRock", 1, 0), Loot("UpgradeScissor", 1, 0)}

(* loot snapshots: a hurt and a full-health player, no, one or two offers *)
LootRoots ==
  LET p(h) == Fighter(h, MaxHealth, 0, MaxArmor,
                      <<<<1, 0>>, <<1, 0>>, <<1, 0>>>>, <<3, 3, 3>>)
      e == Fighter(2, 2, 0, MaxArmor, <<<<2, 0>>, <<1, 0>>, <<1, 1>>>>, <<3, 3, 3>>)
  IN {RunState(p(h), <<e>>, 0, TRUE, opts) :
        h \in {1, MaxHealth},
        opts \in {<<>>} \cup {<<a>> : a \in LootOptions}
                 \cup {<<a, b>> : a \in LootOptions, b \in LootOptions}}

(* loot snapshots of a player at 3 and 4 of 10 health, offered a max-health *)
(* boon and a +1 scissor upgrade in either order                           *)
LowHealthLootRoots ==
  LET e == Fighter(2, 2, 0, MaxArmor, <<<<2, 0>>, <<1, 0>>, <<1, 1>>>>, <<3, 3, 3>>)
      hp == Loot("AddMaxHealth", 2, 0)
      sc == Loot("UpgradeScissor", 1, 0)
  IN {RunState(Fighter(h, 10, ar, MaxArmor, prof, ch), <<e>>, 0, TRUE, opts) :
        h \in {3, 4}, ar \in {0, MaxArmor}, prof \in PlayerProfiles,
        ch \in PlayerCharges, opts \in {<<hp, sc>>, <<sc, hp>>}}

(* combat snapshots with a second enemy behind the current one, fresh or *)
(* already at 0 health                                                  *)
SecondEnemyRoots ==
  LET e(ec) == Fighter(2, 2, 0, MaxArmor, <<<<2, 0>>, <<1, 0>>, <<1, 1>>>>, ec)
      back(bh) == Fighter(bh, 2, 0, MaxArmor, <<<<2, 0>>, <<1, 0>>, <<1, 1>>>>, <<3, 3, 3>>)
  IN {RunState(Fighter(h, MaxHealth, 0, MaxArmor, prof, <<3, 3, 3>>),
               <<e(ec), back(bh)>>, 0, FALSE, <<>>) :
        h \in 1..MaxHealth, prof \in PlayerProfiles,
        ec \in {<<0, 0, -1>>, <<3, -1, -1>>}, bh \in {0, 2}}

Roots == CombatRoots \cup LootRoots \cup LowHealthLootRoots \cup SecondEnemyRoots

(* what the caller passes to the constructor, and which of the two *)
(* calculateExpectedValue bodies of the repository is built         *)
Configs ==
  {[maxHorizon |-> h, evaluateFn |-> ev, lethalOverride |-> lo] :
     h \in {1, MinHorizon}, ev \in {"default", "defensive"}, lo \in BOOLEAN}

NoNode == [kind |-> "none"]

-----------------------------------------------------------------------------
(* The decisions: pickAction calls on one instance *)

Init ==
  /\ state \in Roots
  /\ config \in {DPAlgorithm(c) : c \in Configs}
  /\ memo = EmptyMemo
  /\ result = "none"
  /\ node = NoNode
  /\ walk = NoNode

PickAction ==
  /\ result = "none"
  /\ LET r == pickAction(config, state, memo)
     IN /\ result' = r.action
        /\ memo' = r.memo
  /\ UNCHANGED <<state, config, node, walk>>

(* snapshots of a later call that agree on every field of the memo key *)
(* and differ in the player's armor.max                                *)
LaterRoots ==
  LET p(h, armax) == Fighter(h, MaxHealth, 0, armax,
                             <<<<2, 0>>, <<1, 1>>, <<1, 0>>>>, <<2, 1, 1>>)
      e == Fighter(2, 2, 0, MaxArmor, <<<<2, 0>>, <<1, 0>>, <<1, 1>>>>, <<3, -1, -1>>)
  IN {RunState(p(h, armax), <<e>>, 0, FALSE, <<>>) :
        h \in {1, MaxHealth}, armax \in {0, MaxArmor}}

(* a later pickAction call on the same instance, on the same snapshot *)
(* again or on another one                                            *)
PickAgain ==
  /\ result # "none"
  /\ \E s \in {state} \cup LaterRoots :
       LET r == pickAction(config, s, memo)
       IN /\ state' = s
          /\ result' = r.action
          /\ memo' = r.memo
  /\ UNCHANGED <<config, node, walk>>

Next == PickAction \/ PickAgain

Spec == Init /\ [][Next]_vars

-----------------------------------------------------------------------------
(* The rounds the engine plays: the search applies applyRoundOutcome to   *)
(* every pair of a charged player move and an enemy reply; the loot       *)
(* micro-simulation plays greedy moves for at most SimRounds rounds.      *)

(* rounds followed below a root *)
MaxRounds == 2

Charges == -1..3

AllCharges == {<<a, b, c>> : a \in Charges, b \in Charges, c \in Charges}

StatProfiles ==
  {<<<<1, 0>>, <<1, 0>>, <<1, 0>>>>, <<<<2, 1>>, <<0, 2>>, <<3, 0>>>>,
   <<<<0, 0>>, <<2, 2>>, <<1, 1>>>>}

FewCharges == {<<3, 3, 3>>, <<1, -1, 0>>, <<0, 0, -1>>, <<2, 1, 3>>}

(* <<current, max>> *)
Armors == {am \in (0..MaxArmor) \X (0..MaxArmor) : am[1] <= am[2]}

(* every charge vector of the player against a few of the enemy, *)
(* and the converse                                              *)
ChargeRoots ==
  LET prof == <<<<1, 0>>, <<1, 1>>, <<2, 0>>>>
  IN {RunState(Fighter(MaxHealth, MaxHealth, 0, MaxArmor, prof, pc),
               <<Fighter(MaxHealth, MaxHealth, 0, MaxArmor, prof, ec)>>,
               0, FALSE, <<>>) :
        pc \in AllCharges, ec \in FewCharges}
     \cup
     {RunState(Fighter(MaxHealth, MaxHealth, 0, MaxArmor, prof, pc),
               <<Fighter(MaxHealth, MaxHealth, 0, MaxArmor, prof, ec)>>,
               0, FALSE, <<>>) :
        pc \in FewCharges, ec \in AllCharges}

(* health, armor and move stats varied, with a second enemy behind *)
StatRoots ==
  LET back == Fighter(1, MaxHealth, 0, MaxArmor,
                      <<<<1, 0>>, <<1, 0>>, <<1, 0>>>>, <<3, 3, 3>>)
  IN {RunState(Fighter(ph, MaxHealth, pa[1], pa[2], pp, pc),
               <<Fighter(eh, MaxHealth, ea[1], ea[2], ep, ec), back>>,
               0, FALSE, <<>>) :
        ph \in 1..MaxHealth, pa \in Armors, pp \in StatProfiles,
        pc \in {<<3, 3, 3>>, <<1, -1, 0>>},
        eh \in 0..MaxHealth, ea \in Armors, ep \in StatProfiles,
        ec \in {<<3, 3, 3>>, <<0, 0, -1>>}}

(* a tie on rock: player atk 5 / def 2 against enemy atk 3 / def 1 *)
TieRoot ==
  RunState(Fighter(10, 10, 0, 5, <<<<5, 2>>, <<1, 0>>, <<1, 0>>>>, <<3, 3, 3>>),
           <<Fighter(10, 10, 0, 5, <<<<3, 1>>, <<1, 0>>, <<1, 0>>>>, <<3, -1, -1>>)>>,
           0, FALSE, <<>>)

KernelRoots == ChargeRoots \cup StatRoots \cup {TieRoot}

InitKernel ==
  /\ node \in KernelRoots
  /\ walk \in {[mode |-> md, rounds |-> 0, pMove |-> "none", eMove |-> "none",
                before |-> NoNode] : md \in {"search", "sim"}}
  /\ state = NoNode
  /\ config = NoNode
  /\ memo = EmptyMemo
  /\ result = "none"

(* one iteration of the two loops of calculateExpectedValue below a node *)
(* that expectimaxSearch expands                                         *)
SearchRound ==
  /\ walk.mode = "search"
  /\ walk.rounds < Min(MinHorizon, MaxRounds)
  /\ node.player.health.current > 0
  /\ hasEnemy(node)
  /\ currentEnemy(node).health.current > 0
  /\ \E i \in 1..Len(getCombatActions(node)) :
       \E j \in 1..Len(enemyMoves(currentEnemy(node))) :
         LET pMove == actionToMoveType(getCombatActions(node)[i])
             eMove == enemyMoves(currentEnemy(node))[j]
         IN /\ node' = advanceEnemy(applyRoundOutcome(node, pMove, eMove))
            /\ walk' = [walk EXCEPT !.rounds = @ + 1, !.pMove = pMove,
                                    !.eMove = eMove, !.before = node]
  /\ UNCHANGED <<state, config, memo, result>>

(* one iteration of the loop of runSim *)
SimRound ==
  /\ walk.mode = "sim"
  /\ walk.rounds < Min(SimRounds, MaxRounds)
  /\ node.player.health.current > 0
  /\ hasEnemy(node)
  /\ LET pm == greedyOrRock(node.player)
         em == greedyOrRock(currentEnemy(node))
         s1 == simApplyRound(node, pm, em)
     IN /\ node' = IF currentEnemy(s1).health.current <= 0
                   THEN [s1 EXCEPT !.currentEnemyIndex = @ + 1] ELSE s1
        /\ walk' = [walk EXCEPT !.rounds = @ + 1, !.pMove = pm,
                                !.eMove = em, !.before = node]
  /\ UNCHANGED <<state, config, memo, result>>

NextKernel == SearchRound \/ SimRound

SpecKernel == InitKernel /\ [][NextKernel]_vars

-----------------------------------------------------------------------------
(* Loot valuation: evaluateLoot and getLootSynergyScore applied to one     *)
(* offer on a snapshot.                                                    *)

(* players of 30 maximum health: critical, hurt and full *)
LootPlayers ==
  {Fighter(h, 30, ar, 2, prof, ch) :
     h \in {3, 20, 30}, ar \in {0, 2},
     prof \in {<<<<1, 0>>, <<1, 0>>, <<1, 0>>>>, <<<<2, 1>>, <<1, 1>>, <<3, 0>>>>},
     ch \in {<<3, 3, 3>>, <<1, -1, 0>>}}

(* a hard-hitting and a light enemy, nearly dead or fresh *)
LootEnemies ==
  {Fighter(eh, 30, 0, 2, prof, <<3, 3, 3>>) :
     eh \in {2, 30},
     prof \in {<<<<7, 0>>, <<1, 0>>, <<1, 0>>>>, <<<<1, 0>>, <<2, 1>>, <<1, 0>>>>}}

(* a boon of no declared type that carries a grantCharges object *)
GrantCharges(r, p, sc) ==
  [boonTypeString |-> "GrantCharges", selectedVal1 |-> 0, selectedVal2 |-> 0,
   grantCharges |-> [rock |-> r, paper |-> p, scissor |-> sc]]

Offers ==
  {Loot("Heal", 10, 0), Loot("AddMaxHealth", 2, 0), Loot("AddMaxArmor", 2, 0),
   Loot("UpgradeRock", 2, 0), Loot("UpgradeRock", 1, 0),
   Loot("UpgradePaper", 0, 1), Loot("UpgradeScissor", 0, 2),
   Loot("UpgradePaper", 1, 1), GrantCharges(1, 2, 0)}

(* one or two enemies, the current one first or last *)
LootSnapshots ==
  {RunState(p, <<e>>, 0, TRUE, <<>>) : p \in LootPlayers, e \in LootEnemies}
  \cup {RunState(p, <<e, e>>, idx, TRUE, <<>>) :
          p \in LootPlayers, e \in LootEnemies, idx \in {0, 1}}

Unscored == [by |-> "none", score |-> RInt(0)]

InitLoot ==
  /\ state \in LootSnapshots
  /\ node \in Offers
  /\ result = Unscored
  /\ config = NoNode
  /\ memo = EmptyMemo
  /\ walk = NoNode

(* evaluateLoot(state, loot) *)
ScoreLoot ==
  /\ result = Unscored
  /\ result' = [by |-> "evaluateLoot", score |-> evaluateLoot(state, node)]
  /\ UNCHANGED <<state, config, memo, node, walk>>

(* this.getLootSynergyScore(state, loot) *)
ScoreSynergy ==
  /\ result = Unscored
  /\ result' = [by |-> "getLootSynergyScore",
                score |-> Rat(getLootSynergyScore(state, node), LootScale)]
  /\ UNCHANGED <<state, config, memo, node, walk>>

(* applyLootToClone(clone, loot) on a copy of the snapshot *)
ApplyLoot ==
  /\ result = Unscored
  /\ state' = applyLootToClone(state, node)
  /\ walk' = [before |-> state]
  /\ result' = [by |-> "applyLootToClone", score |-> RInt(0)]
  /\ UNCHANGED <<config, memo, node>>

NextLoot == ScoreLoot \/ ScoreSynergy \/ ApplyLoot

SpecLoot == InitLoot /\ [][NextLoot]_vars

-----------------------------------------------------------------------------
(* Objects and references.  A run-state object refers to fighter objects;  *)
(* applyRoundOutcome, applyLootToClone and applyRound assign to the fields *)
(* of the fighters a run-state object refers to.  A heap holds the         *)
(* run-state objects and the fighter objects by identity.                  *)

(* the heap holding the caller's snapshot s as run-state object 1 *)
NewHeap(s) ==
  [states |-> <<[player |-> 1,
                 enemies |-> [i \in 1..Len(s.enemies) |-> i + 1],
                 currentEnemyIndex |-> s.currentEnemyIndex,
                 lootPhase |-> s.lootPhase,
                 lootOptions |-> s.lootOptions]>>,
   fighters |-> <<s.player>> \o s.enemies]

(* the value read through the reference sid *)
deref(h, sid) ==
  [player |-> h.fighters[h.states[sid].player],
   enemies |-> [i \in 1..Len(h.states[sid].enemies) |->
                  h.fighters[h.states[sid].enemies[i]]],
   currentEnemyIndex |-> h.states[sid].currentEnemyIndex,
   lootPhase |-> h.states[sid].lootPhase,
   lootOptions |-> h.states[sid].lootOptions]

(* assignments through the reference sid that leave the object holding v *)
assignThrough(h, sid, v) ==
  [states |-> [h.states EXCEPT ![sid].currentEnemyIndex = v.currentEnemyIndex],
   fighters |->
     [f \in 1..Len(h.fighters) |->
        IF f = h.states[sid].player THEN v.player
        ELSE IF \E i \in 1..Len(h.states[sid].enemies) : h.states[sid].enemies[i] = f
        THEN v.enemies[CHOOSE i \in 1..Len(h.states[sid].enemies) :
                         h.states[sid].enemies[i] = f]
        ELSE h.fighters[f]]]

(* a copy of the run-state object that refers to the same fighters *)
shallowCopy(h, sid) ==
  [heap |-> [h EXCEPT !.states = Append(@, h.states[sid])],
   id |-> Len(h.states) + 1]

(* JSON.parse(JSON.stringify(state)): a new run-state object that refers *)
(* to new fighter objects                                                *)
jsonCopy(h, sid) ==
  [heap |->
     [states |-> Append(h.states,
                        [h.states[sid] EXCEPT
                           !.player = Len(h.fighters) + 1,
                           !.enemies = [i \in 1..Len(h.states[sid].enemies) |->
                                          Len(h.fighters) + 1 + i]]),
      fighters |-> h.fighters \o <<deref(h, sid).player>> \o deref(h, sid).enemies],
   id |-> Len(h.states) + 1]

(* DPAlgorithm.fastClone *)
fastClone(h, sid) == jsonCopy(h, sid)

(* cloneState of lootEvaluate.ts *)
cloneState(h, sid) == jsonCopy(h, sid)

(* run-state objects one call may allocate *)
MaxObjects == 3

HeapRoots ==
  {RunState(Fighter(h, MaxHealth, 0, MaxArmor, prof, <<3, 3, 3>>),
            <<Fighter(2, 2, 0, MaxArmor, <<<<1, 0>>, <<1, 1>>, <<1, 0>>>>, ec)>>,
            0, FALSE, <<>>) :
     h \in 1..MaxHealth,
     prof \in {<<<<1, 0>>, <<1, 0>>, <<1, 0>>>>, <<<<2, 0>>, <<1, 1>>, <<1, 0>>>>},
     ec \in {<<3, 3, 3>>, <<3, -1, -1>>}}

HeapOffers == {Loot("Heal", 1, 0), Loot("AddMaxArmor", 1, 0), Loot("UpgradeRock", 2, 0)}

InitHeap ==
  /\ \E s \in HeapRoots :
       /\ state = NewHeap(s)
       /\ walk = [path |-> <<1>>, seen |-> <<s>>]
  /\ node \in HeapOffers
  /\ config = DPAlgorithm([maxHorizon |-> MinHorizon, evaluateFn |-> "default",
                           lethalOverride |-> FALSE])
  /\ result = [op |-> "none", value |-> 0]
  /\ memo = EmptyMemo

(* the run-state object the search is at *)
here == walk.path[Len(walk.path)]

(* one iteration of the inner loop of calculateExpectedValue: clone the *)
(* state, apply the round to the clone, search below the clone          *)
SearchChild ==
  /\ Len(state.states) < MaxObjects
  /\ Len(walk.path) <= MaxRounds
  /\ deref(state, here).player.health.current > 0
  /\ hasEnemy(deref(state, here))
  /\ currentEnemy(deref(state, here)).health.current > 0
  /\ \E i \in 1..Len(getCombatActions(deref(state, here))) :
       \E j \in 1..Len(enemyMoves(currentEnemy(deref(state, here)))) :
         LET c == fastClone(state, here)
             v == advanceEnemy(applyRoundOutcome(
                    deref(c.heap, c.id),
                    actionToMoveType(getCombatActions(deref(state, here))[i]),
                    enemyMoves(currentEnemy(deref(state, here)))[j]))
         IN /\ state' = assignThrough(c.heap, c.id, v)
            /\ walk' = [path |-> Append(walk.path, c.id),
                        seen |-> Append(walk.seen, v)]
  /\ result' = [op |-> "search", value |-> 0]
  /\ UNCHANGED <<config, memo, node>>

(* the search below a clone returns to the loop of its parent *)
SearchReturn ==
  /\ Len(walk.path) > 1
  /\ walk' = [path |-> SubSeq(walk.path, 1, Len(walk.path) - 1),
              seen |-> SubSeq(walk.seen, 1, Len(walk.seen) - 1)]
  /\ UNCHANGED <<state, config, memo, result, node>>

(* this.config.evaluateFn(state) reads the state *)
Evaluate ==
  /\ result' = [op |-> "evaluate", value |-> evaluateFn(config, deref(state, here))]
  /\ result # result'
  /\ UNCHANGED <<state, config, memo, node, walk>>

(* computeStateDeltaValue(state, loot) on the caller's snapshot *)
StateDelta ==
  /\ Len(walk.path) = 1
  /\ Len(state.states) < MaxObjects
  /\ LET c == cloneState(state, 1)
     IN state' = assignThrough(c.heap, c.id,
                               applyLootToClone(deref(c.heap, c.id), node))
  /\ result' = [op |-> "sdv", value |-> 0]
  /\ UNCHANGED <<config, memo, node, walk>>

(* microSimulateLootEffect(state, loot) on the caller's snapshot *)
MicroSimulate ==
  /\ Len(walk.path) = 1
  /\ Len(state.states) + 1 < MaxObjects
  /\ LET b == cloneState(state, 1)
         m == cloneState(b.heap, 1)
         modded == assignThrough(m.heap, m.id,
                                 applyLootToClone(deref(m.heap, m.id), node))
         afterBase == assignThrough(modded, b.id,
                                    runSim(deref(modded, b.id), 0).clone)
     IN state' = assignThrough(afterBase, m.id,
                               runSim(deref(afterBase, m.id), 0).clone)
  /\ result' = [op |-> "micro", value |-> 0]
  /\ UNCHANGED <<config, memo, node, walk>>

NextHeap == SearchChild \/ SearchReturn \/ Evaluate \/ StateDelta \/ MicroSimulate

SpecHeap == InitHeap /\ [][NextHeap]_vars

-----------------------------------------------------------------------------
(* Properties of the decision *)

Decided == result # "none"

(* loot phase off, player alive, current enemy present and alive *)
InCombat(s) ==
  /\ ~s.lootPhase
  /\ s.player.health.current > 0
  /\ hasEnemy(s)
  /\ currentEnemy(s).health.current > 0

LegalMoves(s) == {m \in MoveType : s.player[m].currentCharges > 0}

Replies(s) == {enemyMoves(currentEnemy(s))[j] :
                 j \in 1..Len(enemyMoves(currentEnemy(s)))}

ActionOf(m) ==
  IF m = "rock" THEN "MOVE_ROCK"
  ELSE IF m = "paper" THEN "MOVE_PAPER" ELSE "MOVE_SCISSOR"

IsMove(a) == a \in {"MOVE_ROCK", "MOVE_PAPER", "MOVE_SCISSOR"}

(* the state the search builds below the root for one pair of moves *)
AfterRound(s, m, e) == advanceEnemy(applyRoundOutcome(s, m, e))

(* C1: in a combat snapshot (loot phase off, player and current enemy     *)
(* alive) where some player move has charges > 0, the action returned by  *)
(* pickAction is a move whose charges are > 0 in that snapshot.           *)
C1_ReturnsChargedMove ==
  (Decided /\ InCombat(state) /\ LegalMoves(state) # {})
    => (IsMove(result) /\ actionToMoveType(result) \in LegalMoves(state))

(* C9: with the loot phase off, when the enemy list is empty, the enemy   *)
(* index is past the list, the player's health is 0, or no player move    *)
(* has charges > 0, pickAction returns MOVE_ROCK.                         *)
C9_Degenerate(s) ==
  /\ ~s.lootPhase
  /\ \/ Len(s.enemies) = 0
     \/ s.currentEnemyIndex >= Len(s.enemies)
     \/ s.player.health.current = 0
     \/ LegalMoves(s) = {}

C9_DegenerateReturnsRock ==
  (Decided /\ C9_Degenerate(state)) => result = "MOVE_ROCK"

(* the player is alive and faces a living enemy but has no charged move, *)
(* and the decision has been taken                                       *)
C9_Witness ==
  /\ Decided
  /\ InCombat(state)
  /\ LegalMoves(state) = {}
  /\ result = "MOVE_ROCK"

(* C10: in the loot phase with no loot option, pickAction ends with the *)
(* NoLegalAction outcome and returns no action.                         *)
C10_EmptyLootFails ==
  (Decided /\ state.lootPhase /\ Len(state.lootOptions) = 0)
    => result = "NoLegalAction"

(* value the search computes for the child of the root under (m, e) *)
ChildValue(cfg, s, m, e) ==
  expectimaxSearch(cfg, AfterRound(s, m, e), cfg.maxHorizon - 1, EmptyMemo).bestValue

(* some child of the root under m has a value below -900,000 *)
Tainted(cfg, s, m) ==
  \E e \in Replies(s) : VLess(ChildValue(cfg, s, m, e), Fin(DeathThreshold))

(* C4: when some legal root action has no child valued below -900,000   *)
(* and another legal root action has such a child, the action returned  *)
(* has no child valued below -900,000.                                  *)
C4_UntaintedPreferred ==
  (/\ Decided
   /\ InCombat(state)
   /\ \E a \in LegalMoves(state) : ~Tainted(config, state, a)
   /\ \E b \in LegalMoves(state) : Tainted(config, state, b))
    => (IsMove(result) /\ ~Tainted(config, state, actionToMoveType(result)))

(* m loses the player's last health whatever the enemy replies *)
LethalNow(s, m) ==
  \A e \in Replies(s) : AfterRound(s, m, e).player.health.current = 0

(* some enemy reply to m leaves the player alive after the round *)
SurvivableNow(s, m) ==
  \E e \in Replies(s) : AfterRound(s, m, e).player.health.current > 0

(* the player has a line of play that keeps it alive for d more rounds *)
(* whatever the enemy replies                                          *)
RECURSIVE CanSurvive(_, _)
CanSurvive(s, d) ==
  /\ s.player.health.current > 0
  /\ \/ d = 0
     \/ ~hasEnemy(s)
     \/ \E m \in LegalMoves(s) :
          \A e \in Replies(s) :
            LET next == AfterRound(s, m, e)
            IN next.player.health.current >= 0 /\ CanSurvive(next, d - 1)

(* playing m now keeps the player alive through the whole horizon *)
SafeMove(cfg, s, m) ==
  \A e \in Replies(s) :
    LET next == AfterRound(s, m, e)
    IN next.player.health.current >= 0 /\ CanSurvive(next, cfg.maxHorizon - 1)

(* C2 as stated: when a legal move L is lethal under every enemy reply  *)
(* and another legal move has a reply the player survives, pickAction   *)
(* does not return L.                                                   *)
C2_LethalNotReturned ==
  (Decided /\ InCombat(state))
    => \A L \in LegalMoves(state) :
         (/\ LethalNow(state, L)
          /\ \E m \in LegalMoves(state) \ {L} : SurvivableNow(state, m))
           => result # ActionOf(L)

(* C2 amended: when a legal move L is lethal under every enemy reply and *)
(* another legal move keeps the player alive through the search horizon  *)
(* under every enemy reply, pickAction does not return L.                *)
C2_LethalNotReturnedWhenSafe ==
  (Decided /\ InCombat(state))
    => \A L \in LegalMoves(state) :
         (/\ LethalNow(state, L)
          /\ \E m \in LegalMoves(state) \ {L} : SafeMove(config, state, m))
           => result # ActionOf(L)

(* rock is lethal under every reply, another move is safe, and the *)
(* decision has been taken                                         *)
C2_Witness ==
  /\ Decided
  /\ InCombat(state)
  /\ LethalNow(state, "rock")
  /\ "rock" \in LegalMoves(state)
  /\ \E m \in LegalMoves(state) \ {"rock"} : SafeMove(config, state, m)
  /\ Cardinality(Replies(state)) > 1

(* the enemy has exactly one charged move and its attack reaches the *)
(* player's health plus armor; the player has all three moves charged *)
ForcedLethal(s) ==
  /\ InCombat(s)
  /\ Cardinality({m \in MoveType : currentEnemy(s)[m].currentCharges > 0}) = 1
  /\ \A m \in MoveType :
       currentEnemy(s)[m].currentCharges > 0
         => currentEnemy(s)[m].currentATK
              >= s.player.health.current + s.player.armor.current
  /\ LegalMoves(s) = MoveType

(* the player is alive at the end of the round when it plays the *)
(* returned move                                                  *)
ResultSurvivesRound ==
  /\ IsMove(result)
  /\ \A e \in Replies(state) :
       AfterRound(state, actionToMoveType(result), e).player.health.current > 0

(* C3 as stated: in a forced-lethal state where some player move leaves *)
(* the player alive after this round, pickAction returns a move after   *)
(* which the player is alive at the end of this round.                  *)
C3_ForcedLethalSurvives ==
  (/\ Decided
   /\ ForcedLethal(state)
   /\ \E m \in MoveType : SurvivableNow(state, m))
    => ResultSurvivesRound

(* C3 amended: in a forced-lethal state where some player move keeps the *)
(* player alive through the search horizon, pickAction returns a move    *)
(* after which the player is alive at the end of this round.             *)
C3_ForcedLethalSurvivesWhenSafe ==
  (/\ Decided
   /\ ForcedLethal(state)
   /\ \E m \in MoveType : SafeMove(config, state, m))
    => ResultSurvivesRound

(* a forced-lethal state with a safe move and a move that dies now, *)
(* decided                                                          *)
C3_Witness ==
  /\ Decided
  /\ ForcedLethal(state)
  /\ \E m \in MoveType : SafeMove(config, state, m)
  /\ \E m \in MoveType : LethalNow(state, m)
  /\ ResultSurvivesRound

-----------------------------------------------------------------------------
(* Properties of the rounds *)

Played == walk.rounds > 0

(* the enemy that played the last round, before and after it *)
EnemyBefore == currentEnemy(walk.before)

EnemyAfter == node.enemies[walk.before.currentEnemyIndex + 1]

FighterOk(f) ==
  /\ 0 <= f.health.current /\ f.health.current <= f.health.max
  /\ 0 <= f.armor.current /\ f.armor.current <= f.armor.max
  /\ \A m \in MoveType : f[m].currentCharges \in -1..3

(* C5: after every round every fighter has 0 <= health.current <=       *)
(* health.max, 0 <= armor.current <= armor.max and charges in -1..3.    *)
C5_FightersInRange ==
  /\ FighterOk(node.player)
  /\ \A i \in 1..Len(node.enemies) : FighterOk(node.enemies[i])

(* a search round in which the player lost with less health and armor  *)
(* than the damage, and in which the enemy's armor gain met its cap     *)
C5_Witness ==
  /\ Played
  /\ walk.mode = "search"
  /\ EnemyBefore[walk.eMove].currentATK
       > walk.before.player.health.current + walk.before.player.armor.current
  /\ node.player.health.current = 0
  /\ EnemyBefore.armor.current + EnemyBefore[walk.eMove].currentDEF
       > EnemyBefore.armor.max
  /\ walk.pMove # walk.eMove /\ ~playerWins(walk.pMove, walk.eMove)

UsedDecreased(before, after, m) ==
  \/ after[m].currentCharges < before[m].currentCharges
  \/ (before[m].currentCharges = 1 /\ after[m].currentCharges = -1)

UnusedRegenerated(before, after, used) ==
  \A m \in MoveType \ {used} :
    \/ (before[m].currentCharges = 3 /\ after[m].currentCharges = 3)
    \/ (before[m].currentCharges >= 0
        /\ after[m].currentCharges = before[m].currentCharges + 1)
    \/ (before[m].currentCharges = -1 /\ after[m].currentCharges = 0)

(* C6 as stated: after every round, for both fighters, the used move's  *)
(* charges strictly decreased (or went 1 -> -1) and each unused move's  *)
(* charges stayed at 3, rose by 1 from a non-negative value, or went    *)
(* -1 -> 0.                                                             *)
C6_ChargesChange ==
  Played =>
    /\ UsedDecreased(walk.before.player, node.player, walk.pMove)
    /\ UnusedRegenerated(walk.before.player, node.player, walk.pMove)
    /\ UsedDecreased(EnemyBefore, EnemyAfter, walk.eMove)
    /\ UnusedRegenerated(EnemyBefore, EnemyAfter, walk.eMove)

UsedDecreasedOrEmpty(before, after, m) ==
  IF before[m].currentCharges > 0
  THEN UsedDecreased(before, after, m)
  ELSE after[m].currentCharges = before[m].currentCharges

(* C6 amended: after every round, for both fighters, the used move's    *)
(* charges strictly decreased (or went 1 -> -1) when it had charges > 0 *)
(* and are unchanged when it had none (the rock fallback); each unused  *)
(* move's charges stayed at 3, rose by 1 from a non-negative value, or  *)
(* went -1 -> 0.                                                        *)
C6_ChargesChangeUnlessEmpty ==
  Played =>
    /\ UsedDecreasedOrEmpty(walk.before.player, node.player, walk.pMove)
    /\ UnusedRegenerated(walk.before.player, node.player, walk.pMove)
    /\ UsedDecreasedOrEmpty(EnemyBefore, EnemyAfter, walk.eMove)
    /\ UnusedRegenerated(EnemyBefore, EnemyAfter, walk.eMove)

(* a search round in which the enemy, without a charged move, played *)
(* the rock fallback                                                  *)
C6_Witness ==
  /\ Played
  /\ walk.mode = "search"
  /\ walk.eMove = "rock"
  /\ EnemyBefore.rock.currentCharges <= 0
  /\ EnemyAfter.rock.currentCharges = EnemyBefore.rock.currentCharges
  /\ walk.before.player[walk.pMove].currentCharges = 1
  /\ node.player[walk.pMove].currentCharges = -1

(* a round of the search in which both fighters play the same move and *)
(* start with no armor, each move's def within the fighter's armor.max *)
TieRound ==
  /\ Played
  /\ walk.mode = "search"
  /\ walk.pMove = walk.eMove
  /\ walk.before.player.armor.current = 0
  /\ EnemyBefore.armor.current = 0
  /\ walk.before.player[walk.pMove].currentDEF <= walk.before.player.armor.max
  /\ EnemyBefore[walk.eMove].currentDEF <= EnemyBefore.armor.max

(* C7 as stated: after a tie round started without armor, each fighter's *)
(* health has dropped by the opponent's move atk, each fighter's armor   *)
(* equals its own move's def, and both used moves' charges decreased.    *)
C7_TieRound ==
  TieRound =>
    LET p == walk.before.player
        e == EnemyBefore
        m == walk.pMove
    IN /\ node.player.health.current = Max(0, p.health.current - e[m].currentATK)
       /\ EnemyAfter.health.current = Max(0, e.health.current - p[m].currentATK)
       /\ node.player.armor.current = p[m].currentDEF
       /\ EnemyAfter.armor.current = e[m].currentDEF
       /\ UsedDecreased(p, node.player, m)
       /\ UsedDecreased(e, EnemyAfter, m)

(* C7 amended: after a tie round started without armor, each fighter's   *)
(* armor gain absorbs the opponent's atk first: armor is def less the    *)
(* absorbed part, health drops by the unabsorbed part of the opponent's  *)
(* atk, and each used move that had charges > 0 lost a charge.           *)
C7_TieRoundArmorFirst ==
  TieRound =>
    LET p == walk.before.player
        e == EnemyBefore
        m == walk.pMove
        absP == Min(p[m].currentDEF, e[m].currentATK)
        absE == Min(e[m].currentDEF, p[m].currentATK)
    IN /\ node.player.health.current
            = Max(0, p.health.current - (e[m].currentATK - absP))
       /\ EnemyAfter.health.current
            = Max(0, e.health.current - (p[m].currentATK - absE))
       /\ node.player.armor.current = p[m].currentDEF - absP
       /\ EnemyAfter.armor.current = e[m].currentDEF - absE
       /\ UsedDecreasedOrEmpty(p, node.player, m)
       /\ UsedDecreasedOrEmpty(e, EnemyAfter, m)

(* the tie of player atk 5 / def 2 against enemy atk 3 / def 1: the    *)
(* player lost 1 health, the enemy 4, and neither kept any armor       *)
C7_Witness ==
  /\ TieRound
  /\ walk.before = TieRoot
  /\ node.player.health.current = 9
  /\ EnemyAfter.health.current = 6
  /\ node.player.armor.current = 0
  /\ EnemyAfter.armor.current = 0
  /\ node.player.rock.currentCharges = 2
  /\ EnemyAfter.rock.currentCharges = 2

ChargeRule(before, after, used) ==
  before[used].currentCharges >= 1 =>
    /\ after[used].currentCharges
         = IF before[used].currentCharges > 1
           THEN before[used].currentCharges - 1 ELSE -1
    /\ \A m \in MoveType \ {used} :
         after[m].currentCharges
           = IF before[m].currentCharges = -1 THEN 0
             ELSE IF before[m].currentCharges < 3
             THEN before[m].currentCharges + 1 ELSE 3

(* C8: a fighter that uses a move with charges c >= 1 has c - 1 on it  *)
(* after the round if c > 1 and -1 if c = 1; each other move goes      *)
(* -1 -> 0, k -> k + 1 for 0 <= k < 3, and 3 -> 3.                     *)
C8_ChargeRegeneration ==
  Played =>
    /\ ChargeRule(walk.before.player, node.player, walk.pMove)
    /\ ChargeRule(EnemyBefore, EnemyAfter, walk.eMove)

(* from rock 1, paper 0, scissor -1 the player used rock in a search *)
(* round and holds rock -1, paper 1, scissor 0                       *)
C8_Witness ==
  /\ Played
  /\ walk.mode = "search"
  /\ walk.pMove = "rock"
  /\ walk.before.player.rock.currentCharges = 1
  /\ walk.before.player.paper.currentCharges = 0
  /\ walk.before.player.scissor.currentCharges = -1
  /\ node.player.rock.currentCharges = -1
  /\ node.player.paper.currentCharges = 1
  /\ node.player.scissor.currentCharges = 0

-----------------------------------------------------------------------------
(* Loot decisions *)

InLoot(s) == s.lootPhase /\ Len(s.lootOptions) >= 1

(* 1-based index of the option a PICK_LOOT action selects, 0 for a move *)
PickedIndex(a) ==
  IF a = "PICK_LOOT_ONE" THEN 1 ELSE IF a = "PICK_LOOT_TWO" THEN 2
  ELSE IF a = "PICK_LOOT_THREE" THEN 3 ELSE IF a = "PICK_LOOT_FOUR" THEN 4 ELSE 0

FullHealth(s) == s.player.health.current = s.player.health.max

IsHealOption(loot) == loot.boonTypeString = "Heal"

(* C12: in the loot phase, when the player's health is at its maximum and *)
(* some offered option is not a Heal, the option pickAction selects is    *)
(* not a Heal.                                                            *)
C12_NoHealAtFullHealth ==
  (Decided /\ InLoot(state) /\ FullHealth(state)
     /\ \E i \in 1..Len(state.lootOptions) : ~IsHealOption(state.lootOptions[i]))
    => /\ PickedIndex(result) \in 1..Len(state.lootOptions)
       /\ ~IsHealOption(state.lootOptions[PickedIndex(result)])

(* a full-health player is offered a Heal first and an upgrade second, *)
(* and the second option was selected                                  *)
C12_Witness ==
  /\ Decided /\ InLoot(state) /\ FullHealth(state)
  /\ Len(state.lootOptions) = 2
  /\ IsHealOption(state.lootOptions[1])
  /\ ~IsHealOption(state.lootOptions[2])
  /\ result = "PICK_LOOT_TWO"

-----------------------------------------------------------------------------
(* Values of the search *)

(* what expectimaxSearch returns for the snapshot at the configured horizon *)
RootSearch == expectimaxSearch(config, state, config.maxHorizon, EmptyMemo)

(* C14: after a combat decision, the value the search returned for the *)
(* snapshot and the value it stored for every state it explored are    *)
(* finite (none is -Infinity).                                          *)
C14_SearchValuesFinite ==
  (Decided /\ ~state.lootPhase)
    => /\ ~RootSearch.bestValue.inf
       /\ \A k \in DOMAIN memo : ~memo[k].bestValue.inf

-----------------------------------------------------------------------------
(* One-ply expectimax *)

(* mean of the evaluator over the enemy's replies after one round of act *)
OnePlyMean(cfg, s, act) ==
  LET replies == enemyMoves(currentEnemy(s))
      n == Len(replies)
      leaf(i) == VScale(Fin(evaluateFn(cfg, AfterRound(s, actionToMoveType(act),
                                                       replies[i]))), n)
  IN IF n = 1 THEN leaf(1)
     ELSE IF n = 2 THEN VAdd(leaf(1), leaf(2))
     ELSE VAdd(VAdd(leaf(1), leaf(2)), leaf(3))

(* the earliest action whose one-ply mean is the maximum *)
OnePlyAction(cfg, s) ==
  LET acts == getCombatActions(s)
      isMax(i) == \A j \in 1..Len(acts) :
                    ~VLess(OnePlyMean(cfg, s, acts[i]), OnePlyMean(cfg, s, acts[j]))
      first == CHOOSE i \in 1..Len(acts) :
                 isMax(i) /\ \A j \in 1..(i - 1) : ~isMax(j)
  IN acts[first]

(* the configurations an engine constructed with maxHorizon = 1 holds *)
HorizonOneConfigs == {DPAlgorithm(c) : c \in {k \in Configs : k.maxHorizon = 1}}

(* C17: an engine constructed with maxHorizon = 1 returns, in a combat *)
(* snapshot with a usable move, the action of the one-ply expectimax.  *)
C17_HorizonOneIsOnePly ==
  (Decided /\ InCombat(state) /\ LegalMoves(state) # {}
     /\ config \in HorizonOneConfigs)
    => result = OnePlyAction(config, state)

-----------------------------------------------------------------------------
(* Calls on one instance *)

(* what a newly constructed instance with the same configuration returns *)
FreshAction(cfg, s) == pickAction(cfg, s, EmptyMemo).action

(* C15: after any sequence of pickAction calls on one instance, the    *)
(* action returned for the last snapshot is the action a new instance  *)
(* returns for it.                                                     *)
C15_HistoryIndependent ==
  Decided => result = FreshAction(config, state)

(* a later call chose a snapshot in which the player's armor.max is 0, *)
(* after calls that left entries in the memo map                       *)
C15_Witness ==
  /\ Decided
  /\ state \in LaterRoots
  /\ state.player.armor.max = 0
  /\ memo # EmptyMemo

-----------------------------------------------------------------------------
(* C18: the evaluator the search applies at its leaves (evaluateFn of the  *)
(* instance) gives, on every combat snapshot, the value of the calibrated  *)
(* table, which is the value combatEvaluate computes.                      *)
C18_LeafEvaluatorIsTable ==
  ~state.lootPhase => RInt(evaluateFn(config, state)) = combatEvaluate(state)

-----------------------------------------------------------------------------
(* a score below -10^8 *)
BelowFloor(x) == x.num \div x.den < -100000000

(* the score getLootSynergyScore gives, as a fraction *)
SynergyScore(s, loot) == Rat(getLootSynergyScore(s, loot), LootScale)

(* C13: when the player's health is at its maximum, every offered Heal is  *)
(* scored strictly below -10^8, by evaluateLoot and by the scorer that     *)
(* pickAction uses, getLootSynergyScore.                                   *)
C13_FullHealthHealBelowFloor ==
  (InLoot(state) /\ FullHealth(state))
    => \A i \in 1..Len(state.lootOptions) :
         IsHealOption(state.lootOptions[i])
           => /\ BelowFloor(evaluateLoot(state, state.lootOptions[i]))
              /\ BelowFloor(SynergyScore(state, state.lootOptions[i]))

-----------------------------------------------------------------------------
(* the snapshot with the player's current health replaced *)
WithHealth(s, h) == [s EXCEPT !.player.health.current = h]

(* C19: for a player of 30 maximum health and the offer Heal(10),          *)
(* evaluateLoot scores the offer strictly higher at 3 current health than  *)
(* at 20 current health, every other field of the snapshot being equal.    *)
C19_CriticalHealScoresHigher ==
  (state.player.health.max = 30 /\ node = Loot("Heal", 10, 0))
    => RLess(evaluateLoot(WithHealth(state, 20), node),
             evaluateLoot(WithHealth(state, 3), node))

-----------------------------------------------------------------------------
(* C20: on every snapshot, evaluateLoot scores UpgradeRock(2,0) above zero *)
(* and at least 5 times as high as UpgradeRock(1,0).                       *)
C20_TwoBeatsOneFivefold ==
  /\ RLess(RInt(0), evaluateLoot(state, Loot("UpgradeRock", 2, 0)))
  /\ ~RLess(evaluateLoot(state, Loot("UpgradeRock", 2, 0)),
            RMul(RInt(5), evaluateLoot(state, Loot("UpgradeRock", 1, 0))))

-----------------------------------------------------------------------------
(* option i scores at least as high as every option, and strictly higher *)
(* than every earlier one, under evaluateLoot                            *)
IsFirstBestByEvaluateLoot(s, i) ==
  /\ \A j \in 1..Len(s.lootOptions) :
       ~RLess(evaluateLoot(s, s.lootOptions[i]), evaluateLoot(s, s.lootOptions[j]))
  /\ \A j \in 1..(i - 1) :
       RLess(evaluateLoot(s, s.lootOptions[j]), evaluateLoot(s, s.lootOptions[i]))

(* C11: in the loot phase with at least one offer, pickAction returns the  *)
(* PICK_LOOT action of an offered index, and that index is the lowest one  *)
(* at which evaluateLoot is maximal.                                       *)
C11_PicksFirstBestByEvaluateLoot ==
  (Decided /\ InLoot(state))
    => /\ PickedIndex(result) \in 1..Len(state.lootOptions)
       /\ IsFirstBestByEvaluateLoot(state, PickedIndex(result))

-----------------------------------------------------------------------------
(* C16: the caller's snapshot, and every state on the path of the search,  *)
(* holds after every clone, round and loot application the value it held   *)
(* when the engine first saw it, so that no call changes its input and no  *)
(* branch of the search sees what a sibling did.                           *)
C16_InputsUnchanged ==
  \A k \in 1..Len(walk.path) : deref(state, walk.path[k]) = walk.seen[k]

(* the search is back at the caller's snapshot after rounds and a loot *)
(* application changed copies of it                                    *)
C16_Witness ==
  /\ Len(walk.path) = 1
  /\ result.op \in {"sdv", "micro"}
  /\ Len(state.states) = MaxObjects
  /\ \A sid \in 2..Len(state.states) : deref(state, sid) # walk.seen[1]

-----------------------------------------------------------------------------
(* Damage and outcome of the last round *)

LastTie == walk.pMove = walk.eMove

(* <<player move, enemy move>> of the rounds the player wins *)
WinningPairs == {<<"rock", "scissor">>, <<"paper", "rock">>, <<"scissor", "paper">>}

LastPlayerWins == ~LastTie /\ <<walk.pMove, walk.eMove>> \in WinningPairs

LastEnemyWins == ~LastTie /\ <<walk.pMove, walk.eMove>> \notin WinningPairs

(* incoming damage and armor gain of the two fighters in the last round *)
DamageToPlayer == IF LastPlayerWins THEN 0 ELSE EnemyBefore[walk.eMove].currentATK

DamageToEnemy == IF LastEnemyWins THEN 0 ELSE walk.before.player[walk.pMove].currentATK

GainOfPlayer == IF LastEnemyWins THEN 0 ELSE walk.before.player[walk.pMove].currentDEF

GainOfEnemy == IF LastPlayerWins THEN 0 ELSE EnemyBefore[walk.eMove].currentDEF

DamageRule(before, after, D, G) ==
  LET a == Min(before.armor.current + G, before.armor.max)
      absorbed == Min(D, a)
  IN /\ after.armor.current = a - absorbed
     /\ after.health.current = Max(0, before.health.current - (D - absorbed))

(* C27: in every round, of the search and of the micro-simulation, each   *)
(* fighter with incoming damage D and armor gain G has its armor raised   *)
(* to a = min(armor.current + G, armor.max), loses absorbed = min(D, a)   *)
(* of it, and ends with health max(0, health.current - (D - absorbed)).   *)
C27_ArmorGainThenAbsorb ==
  Played =>
    /\ DamageRule(walk.before.player, node.player, DamageToPlayer, GainOfPlayer)
    /\ DamageRule(EnemyBefore, EnemyAfter, DamageToEnemy, GainOfEnemy)

(* a tie of the micro-simulation in which the player, starting without *)
(* armor, absorbed part of the damage with the armor gained in it      *)
C27_Witness ==
  /\ Played
  /\ walk.mode = "sim"
  /\ LastTie
  /\ walk.before.player.armor.current = 0
  /\ GainOfPlayer > 0
  /\ node.player.health.current < walk.before.player.health.current
  /\ walk.before.player.health.current - node.player.health.current < DamageToPlayer

-----------------------------------------------------------------------------
(* the winner of a decided round keeps health and armor and gains its    *)
(* move's def; the loser takes the winner's move's atk and gains nothing *)
WinnerLoser(wBefore, wAfter, wMove, lBefore, lAfter) ==
  /\ wAfter.health.current >= wBefore.health.current
  /\ wAfter.armor.current >= wBefore.armor.current
  /\ lAfter.armor.current <= lBefore.armor.current
  /\ DamageRule(lBefore, lAfter, wBefore[wMove].currentATK, 0)
  /\ DamageRule(wBefore, wAfter, 0, wBefore[wMove].currentDEF)

(* C28: a round of the search is a tie iff the moves are equal; otherwise *)
(* the player wins iff the moves are rock-scissor, paper-rock or          *)
(* scissor-paper, and the enemy wins.  In a round that is not a tie the   *)
(* winner's health and armor do not decrease, the loser's armor does not  *)
(* increase, the loser takes exactly the atk of the winner's move and the *)
(* winner gains the def of the winner's move; in a tie both fighters take *)
(* the other's atk and gain their own def.                                *)
C28_OutcomeClassification ==
  (Played /\ walk.mode = "search") =>
    /\ LastPlayerWins =>
         WinnerLoser(walk.before.player, node.player, walk.pMove,
                     EnemyBefore, EnemyAfter)
    /\ LastEnemyWins =>
         WinnerLoser(EnemyBefore, EnemyAfter, walk.eMove,
                     walk.before.player, node.player)
    /\ LastTie =>
         /\ DamageRule(walk.before.player, node.player,
                       EnemyBefore[walk.eMove].currentATK,
                       walk.before.player[walk.pMove].currentDEF)
         /\ DamageRule(EnemyBefore, EnemyAfter,
                       walk.before.player[walk.pMove].currentATK,
                       EnemyBefore[walk.eMove].currentDEF)

(* the enemy won a search round with scissor over paper, hurt the player *)
(* and raised its own armor                                              *)
C28_Witness ==
  /\ Played
  /\ walk.mode = "search"
  /\ walk.pMove = "paper" /\ walk.eMove = "scissor"
  /\ node.player.health.current < walk.before.player.health.current
  /\ EnemyAfter.armor.current > EnemyBefore.armor.current
  /\ EnemyAfter.health.current = EnemyBefore.health.current

-----------------------------------------------------------------------------
(* the state applyRoundOutcome left in the last round of the search, *)
(* before the caller looked at the enemy's health                    *)
LastOutcome == applyRoundOutcome(walk.before, walk.pMove, walk.eMove)

(* a fighter's max values, atk and def are kept and its health is not raised *)
FighterFrame(before, after) ==
  /\ after.health.max = before.health.max
  /\ after.armor.max = before.armor.max
  /\ \A m \in MoveType :
       /\ after[m].currentATK = before[m].currentATK
       /\ after[m].currentDEF = before[m].currentDEF
  /\ after.health.current <= before.health.current

(* C29: applyRoundOutcome leaves currentEnemyIndex, the loot fields, every *)
(* other enemy, and every max value, atk and def of the player and of the  *)
(* current enemy unchanged, and raises no fighter's health.current.        *)
C29_RoundFrame ==
  (Played /\ walk.mode = "search") =>
    /\ node = advanceEnemy(LastOutcome)
    /\ LastOutcome.currentEnemyIndex = walk.before.currentEnemyIndex
    /\ LastOutcome.lootPhase = walk.before.lootPhase
    /\ LastOutcome.lootOptions = walk.before.lootOptions
    /\ Len(LastOutcome.enemies) = Len(walk.before.enemies)
    /\ \A i \in 1..Len(walk.before.enemies) :
         i # walk.before.currentEnemyIndex + 1
           => LastOutcome.enemies[i] = walk.before.enemies[i]
    /\ FighterFrame(walk.before.player, LastOutcome.player)
    /\ FighterFrame(EnemyBefore, currentEnemy(LastOutcome))

(* a search round against the first of two enemies in which both fighters *)
(* lost health and the player's armor gain met its cap                    *)
C29_Witness ==
  /\ Played
  /\ walk.mode = "search"
  /\ Len(node.enemies) = 2
  /\ walk.before.currentEnemyIndex = 0
  /\ node.player.health.current < walk.before.player.health.current
  /\ EnemyAfter.health.current < EnemyBefore.health.current
  /\ walk.before.player.armor.current + GainOfPlayer > walk.before.player.armor.max

-----------------------------------------------------------------------------
(* an instance built without an evaluator *)
PlainInstance ==
  DPAlgorithm([maxHorizon |-> MinHorizon, evaluateFn |-> "default",
               lethalOverride |-> FALSE])

(* the search expands nothing below s: it returns the evaluation of s, *)
(* no action, and the memo as it was                                   *)
TerminalForSearch(s) ==
  expectimaxSearch(PlainInstance, s, MinHorizon, EmptyMemo)
    = [bestValue |-> Fin(evaluateFn(PlainInstance, s)), bestAction |-> "null",
       memo |-> EmptyMemo]

(* C30: after each round of the search currentEnemyIndex is one higher if *)
(* the current enemy's health reached 0 and unchanged otherwise; it never *)
(* decreases, never exceeds the number of enemies, and a state whose      *)
(* index equals the number of enemies is terminal for the search.         *)
C30_EnemyAdvancement ==
  (Played /\ walk.mode = "search") =>
    /\ node.currentEnemyIndex
         = walk.before.currentEnemyIndex
           + (IF EnemyAfter.health.current = 0 THEN 1 ELSE 0)
    /\ node.currentEnemyIndex >= walk.before.currentEnemyIndex
    /\ node.currentEnemyIndex <= Len(node.enemies)
    /\ node.currentEnemyIndex = Len(node.enemies) => TerminalForSearch(node)

(* two rounds of the search defeated two enemies, one after the other *)
C30_Witness ==
  /\ walk.mode = "search"
  /\ walk.rounds = 2
  /\ walk.before.currentEnemyIndex = 1
  /\ node.currentEnemyIndex = 2
  /\ Len(node.enemies) = 2
  /\ node.player.health.current > 0

-----------------------------------------------------------------------------
(* C26: every round, of the search and of the micro-simulation, is played *)
(* on a state in which the player is alive and the enemy at               *)
(* currentEnemyIndex exists and has health.current > 0.                   *)
C26_RoundsOnLiveFighters ==
  Played =>
    /\ walk.before.player.health.current > 0
    /\ hasEnemy(walk.before)
    /\ EnemyBefore.health.current > 0

-----------------------------------------------------------------------------
(* health.current / health.max in [0.30, 0.50) *)
LowNotCritical(s) ==
  /\ 10 * s.player.health.current >= 3 * s.player.health.max
  /\ 2 * s.player.health.current < s.player.health.max

MaxHealthAndTinyScissor(s) ==
  s.lootOptions \in {<<Loot("AddMaxHealth", 2, 0), Loot("UpgradeScissor", 1, 0)>>,
                     <<Loot("UpgradeScissor", 1, 0), Loot("AddMaxHealth", 2, 0)>>}

(* C21: in the loot phase, with the player's health low but not critical  *)
(* and the offers AddMaxHealth(2) and UpgradeScissor(1,0) in either       *)
(* order, pickAction selects the index of AddMaxHealth(2).                *)
C21_MaxHealthOverTinyWeapon ==
  (Decided /\ state.lootPhase /\ LowNotCritical(state)
     /\ MaxHealthAndTinyScissor(state))
    => /\ PickedIndex(result) \in 1..2
       /\ state.lootOptions[PickedIndex(result)] = Loot("AddMaxHealth", 2, 0)

(* AddMaxHealth(2) was selected as the second offer, against the upgrade *)
(* of a charged scissor by a player with full armor                      *)
C21_Witness ==
  /\ Decided /\ state.lootPhase /\ LowNotCritical(state)
  /\ state.lootOptions = <<Loot("UpgradeScissor", 1, 0), Loot("AddMaxHealth", 2, 0)>>
  /\ state.player.scissor.currentCharges = 3
  /\ state.player.armor.current = state.player.armor.max
  /\ result = "PICK_LOOT_TWO"

-----------------------------------------------------------------------------
(* a value under the lethal threshold is the evaluator's value of a dead *)
(* player                                                                *)
DeathOrAbove(v) == VLess(v, Fin(DeathThreshold)) => v = Fin(-1000000)

(* C22: every value below -900,000 that the search returns for the       *)
(* snapshot or stores for a state it explored is the evaluator's death   *)
(* value -1,000,000, so that the lethal test only fires on the death of  *)
(* the player.                                                           *)
C22_LethalValuesAreDeath ==
  (Decided /\ ~state.lootPhase)
    => /\ DeathOrAbove(RootSearch.bestValue)
       /\ \A k \in DOMAIN memo : DeathOrAbove(memo[k].bestValue)

-----------------------------------------------------------------------------
(* C23 *)

(* a child value the lethal test of calculateExpectedValue fires on *)
IsLethalValue(v) == VLess(v, Fin(DeathThreshold))

(* the worst of a non-empty set of values *)
VMin(vs) == CHOOSE v \in vs : \A w \in vs : ~VLess(w, v)

(* what the claim assigns to an action whose child values are c1..cn *)
ClaimedActionValue(n, c1, c2, c3) ==
  LET cs     == IF n >= 3 THEN {c1, c2, c3} ELSE IF n = 2 THEN {c1, c2} ELSE {c1}
      lethal == {c \in cs : IsLethalValue(c)}
      t1     == VScale(c1, n)
      t2     == IF n >= 2 THEN VAdd(t1, VScale(c2, n)) ELSE t1
      t3     == IF n >= 3 THEN VAdd(t2, VScale(c3, n)) ELSE t2
  IN IF lethal # {} THEN VMin(lethal) ELSE t3

(* the subResults of the first root action in the order of the loop, each *)
(* searched with the memo the previous one left                           *)
FirstChild(i, m) ==
  expectimaxSearch(config,
    nextState(state, actionToMoveType(getCombatActions(state)[1]),
              enemyMoves(currentEnemy(state)), i),
    config.maxHorizon - 1, m)

FirstActionValue ==
  calculateExpectedValue(config, state, getCombatActions(state)[1],
                         config.maxHorizon, EmptyMemo).value

FirstActionClaimed ==
  LET n  == Len(enemyMoves(currentEnemy(state)))
      s1 == FirstChild(1, EmptyMemo)
      s2 == IF n >= 2 THEN FirstChild(2, s1.memo) ELSE s1
      s3 == IF n >= 3 THEN FirstChild(3, s2.memo) ELSE s2
  IN ClaimedActionValue(n, s1.bestValue, s2.bestValue, s3.bestValue)

(* C23: at the root of a decision the value of the first action is the    *)
(* minimum of its lethal child values (those below -900,000) when it has  *)
(* one, whatever the order of the enemy replies, and otherwise the        *)
(* probability-weighted sum of all its child values.                      *)
C23_LethalValueIsMinimum ==
  (Decided /\ InCombat(state) /\ LegalMoves(state) # {})
    => FirstActionValue = FirstActionClaimed

(* the same statement for the builds that have the lethal test *)
C23_WithLethalTest ==
  config.lethalOverride => C23_LethalValueIsMinimum

-----------------------------------------------------------------------------
(* C24 *)

(* the node the last search round expanded and the replies to it *)
Expanded == walk.mode = "search" /\ walk.rounds > 0

ChargedReplies(s) ==
  LET charged == {m \in MoveType : currentEnemy(s)[m].currentCharges > 0}
  IN IF charged = {} THEN {"rock"} ELSE charged

(* C24: for every expanded state and legal player action the enemy reply  *)
(* set is exactly the enemy moves with charges > 0 (rock alone when there *)
(* are none) and every reply has the same probability in every build of   *)
(* the search: the distribution over the replies gives no reply a weight  *)
(* that depends on its immediate utility.                                 *)
C24_UniformOpponent ==
  Expanded =>
    LET replies == enemyMoves(currentEnemy(walk.before))
        raw     == estimateEnemyMoveScores(walk.before, walk.pMove)
    IN /\ {replies[i] : i \in 1..Len(replies)} = ChargedReplies(walk.before)
       /\ Len(replies) = Cardinality(ChargedReplies(walk.before))
       /\ \A i, j \in 1..Len(replies) : raw[i] = raw[j]

(* the part of C24 about the reply set alone *)
C24_ReplySet ==
  Expanded =>
    LET replies == enemyMoves(currentEnemy(walk.before))
    IN /\ {replies[i] : i \in 1..Len(replies)} = ChargedReplies(walk.before)
       /\ Len(replies) = Cardinality(ChargedReplies(walk.before))

-----------------------------------------------------------------------------
(* C25 *)

RECURSIVE searchUncached(_, _, _)

(* calculateExpectedValue with every subResult searched without the memo *)
valueUncached(cfg, s, myAct, depth) ==
  IF ~hasEnemy(s) \/ currentEnemy(s).health.current <= 0
  THEN [value |-> Fin(evaluateFn(cfg, s)), memo |-> EmptyMemo]
  ELSE LET replies == enemyMoves(currentEnemy(s))
           n  == Len(replies)
           s1 == searchUncached(cfg, nextState(s, actionToMoveType(myAct), replies, 1),
                                depth - 1)
           s2 == IF n >= 2
                 THEN searchUncached(cfg, nextState(s, actionToMoveType(myAct), replies, 2),
                                     depth - 1)
                 ELSE s1
           s3 == IF n >= 3
                 THEN searchUncached(cfg, nextState(s, actionToMoveType(myAct), replies, 3),
                                     depth - 1)
                 ELSE s2
       IN afterReplies(cfg.lethalOverride, n, s1, s2, s3)

(* expectimaxSearch with the cache disabled: no lookup, nothing stored *)
searchUncached(cfg, s, depth) ==
  IF depth <= 0 \/ s.player.health.current <= 0
     \/ s.currentEnemyIndex >= Len(s.enemies)
  THEN [bestValue |-> Fin(evaluateFn(cfg, s)), bestAction |-> "null",
        memo |-> EmptyMemo]
  ELSE IF Len(getCombatActions(s)) = 0
  THEN [bestValue |-> NegInf, bestAction |-> "MOVE_ROCK", memo |-> EmptyMemo]
  ELSE LET acts == getCombatActions(s)
           n  == Len(acts)
           e1 == valueUncached(cfg, s, acts[1], depth)
           e2 == IF n >= 2 THEN valueUncached(cfg, s, acts[2], depth) ELSE e1
           e3 == IF n >= 3 THEN valueUncached(cfg, s, acts[3], depth) ELSE e2
           r  == afterActions(acts, buildStateKey(s, depth), e1, e2, e3)
       IN [bestValue |-> r.bestValue, bestAction |-> r.bestAction,
           memo |-> EmptyMemo]

RootUncached == searchUncached(config, state, config.maxHorizon)

(* C25: memoization is transparent: the memoized search of a combat       *)
(* snapshot returns the same root action and the same root value as the   *)
(* same search with the cache disabled (so that states sharing a key,     *)
(* the short END key included, have the same search value).               *)
C25_MemoTransparent ==
  (Decided /\ InCombat(state))
    => /\ RootSearch.bestValue = RootUncached.bestValue
       /\ RootSearch.bestAction = RootUncached.bestAction

(* the same statement on the snapshots in which no enemy behind the *)
(* current one is at 0 health                                       *)
C25_TransparentWithLiveEnemies ==
  (\A i \in 1..Len(state.enemies) :
     i > state.currentEnemyIndex + 1 => state.enemies[i].health.current > 0)
    => C25_MemoTransparent

-----------------------------------------------------------------------------
(* C31 *)

(* the expected values of the root's actions in the order of the loop, *)
(* each computed with the memo the one before left                     *)
RootActionValues ==
  LET acts == getCombatActions(state)
      n    == Len(acts)
      e1   == calculateExpectedValue(config, state, acts[1], config.maxHorizon, EmptyMemo)
      e2   == IF n >= 2
              THEN calculateExpectedValue(config, state, acts[2], config.maxHorizon, e1.memo)
              ELSE e1
      e3   == IF n >= 3
              THEN calculateExpectedValue(config, state, acts[3], config.maxHorizon, e2.memo)
              ELSE e2
  IN [i \in 1..n |-> IF i = 1 THEN e1.value ELSE IF i = 2 THEN e2.value ELSE e3.value]

(* i is the earliest index of a maximum of the values vs *)
EarliestMaximum(vs, i) ==
  /\ \A j \in DOMAIN vs : ~VLess(vs[i], vs[j])
  /\ \A j \in DOMAIN vs : j < i => VLess(vs[j], vs[i])

CombatOrder == <<"MOVE_ROCK", "MOVE_PAPER", "MOVE_SCISSOR">>

LootOrder == <<"PICK_LOOT_ONE", "PICK_LOOT_TWO", "PICK_LOOT_THREE", "PICK_LOOT_FOUR">>

IsSubsequenceOfCombatOrder(acts) ==
  \A i, j \in 1..Len(acts) :
    i < j => \E a, b \in 1..Len(CombatOrder) :
               a < b /\ CombatOrder[a] = acts[i] /\ CombatOrder[b] = acts[j]

LootScores == [i \in 1..Len(state.lootOptions) |->
                 getLootSynergyScore(state, state.lootOptions[i])]

(* several actions share the maximum value *)
SharedMaximum(vs) ==
  \E i, j \in DOMAIN vs :
    i # j /\ vs[i] = vs[j] /\ \A k \in DOMAIN vs : ~VLess(vs[i], vs[k])

(* some action has a value above the -Infinity the loop starts from *)
SomeValueAboveStart(vs) == \E i \in DOMAIN vs : VLess(NegInf, vs[i])

CombatTieBreak ==
  (Decided /\ InCombat(state) /\ LegalMoves(state) # {})
    => /\ IsSubsequenceOfCombatOrder(getCombatActions(state))
       /\ (SharedMaximum(RootActionValues) \/ SomeValueAboveStart(RootActionValues))
            => \E i \in 1..Len(getCombatActions(state)) :
                 /\ result = getCombatActions(state)[i]
                 /\ EarliestMaximum(RootActionValues, i)

LootTieBreak ==
  (Decided /\ state.lootPhase /\ Len(state.lootOptions) \in 1..4)
    => \E i \in 1..Len(state.lootOptions) :
         /\ result = LootOrder[i]
         /\ \A j \in 1..Len(state.lootOptions) : LootScores[j] <= LootScores[i]
         /\ \A j \in 1..Len(state.lootOptions) : j < i => LootScores[j] < LootScores[i]

(* C31: combat actions are explored in the order rock, paper, scissor and *)
(* loot options in ascending index, and the action returned is the        *)
(* earliest in that order among those of maximum value.                   *)
C31_EarliestMaximumWins == CombatTieBreak /\ LootTieBreak

(* a combat decision in which two actions share a finite maximum value *)
C31_Witness ==
  /\ Decided /\ InCombat(state) /\ LegalMoves(state) # {}
  /\ \E i, j \in 1..Len(getCombatActions(state)) :
       /\ i < j
       /\ RootActionValues[i] = RootActionValues[j]
       /\ VLess(NegInf, RootActionValues[i])
       /\ EarliestMaximum(RootActionValues, i)
       /\ result = getCombatActions(state)[i]

(* a loot decision in which two offers share the maximum score *)
C31_LootTie ==
  /\ Decided /\ state.lootPhase
  /\ \E i, j \in 1..Len(state.lootOptions) :
       /\ i < j
       /\ LootScores[i] = LootScores[j]
       /\ \A k \in 1..Len(state.lootOptions) : LootScores[k] <= LootScores[i]
       /\ result = LootOrder[i]

-----------------------------------------------------------------------------
(* C32 *)

RECURSIVE KillRoundFrom(_, _, _)

(* the 1-based round of the greedy simulation at which the enemy at index *)
(* idx falls, r rounds having been played; SimRounds + 1 when the         *)
(* simulation ends before that                                            *)
KillRoundFrom(clone, idx, r) ==
  IF r >= SimRounds \/ clone.player.health.current <= 0 \/ ~hasEnemy(clone)
  THEN SimRounds + 1
  ELSE LET next == simApplyRound(clone, greedyOrRock(clone.player),
                                 greedyOrRock(currentEnemy(clone)))
       IN IF next.enemies[idx + 1].health.current <= 0 THEN r + 1
          ELSE KillRoundFrom(next, idx, r + 1)

KillRound(s) == KillRoundFrom(s, s.currentEnemyIndex, 0)

(* evaluateLoot has scored the offer on a snapshot with a living current enemy *)
MicroSimulated ==
  /\ result.by = "evaluateLoot"
  /\ hasEnemy(state)
  /\ currentEnemy(state).health.current > 0

(* C32: in the loot micro-simulation of 3 rounds, the TTK of each side is *)
(* the 1-based round at which the enemy that was current at the start was *)
(* killed, and 4 when it was not killed within the 3 rounds; deltaTTK is  *)
(* the difference of the two and deltaSurvival is -1, 0 or 1.             *)
C32_TTKIsKillRound ==
  MicroSimulated =>
    LET mod == applyLootToClone(state, node)
    IN /\ simTTK(state, runSim(state, 0)) = KillRound(state)
       /\ simTTK(state, runSim(mod, 0)) = KillRound(mod)
       /\ microSimulateLootEffect(state, node).deltaTTK
            = KillRound(mod) - KillRound(state)
       /\ microSimulateLootEffect(state, node).deltaSurvival \in {-1, 0, 1}

(* the part of C32 about deltaSurvival *)
C32_DeltaSurvivalRange ==
  MicroSimulated =>
    microSimulateLootEffect(state, node).deltaSurvival \in {-1, 0, 1}

-----------------------------------------------------------------------------
(* C33 *)

(* applyLootToClone has been applied to a copy of walk.before *)
LootApplied == result.by = "applyLootToClone"

(* the declared effect of the loot on the player b *)
DeclaredEffect(b, loot) ==
  LET v1 == loot.selectedVal1
      v2 == loot.selectedVal2
      t  == loot.boonTypeString
      up(m) == [b EXCEPT ![m].currentATK = @ + v1, ![m].currentDEF = @ + v2]
      grant(m) == Min(3, b[m].currentCharges + loot.grantCharges[m])
  IN IF t = "Heal"
     THEN [b EXCEPT !.health.current = Min(b.health.max, b.health.current + v1)]
     ELSE IF t = "AddMaxHealth"
     THEN [b EXCEPT !.health.max = @ + v1, !.health.current = @ + v1]
     ELSE IF t = "AddMaxArmor"
     THEN [b EXCEPT !.armor.max = @ + v1,
                    !.armor.current = Min(b.armor.current + v1, b.armor.max + v1)]
     ELSE IF t = "UpgradeRock" THEN up("rock")
     ELSE IF t = "UpgradePaper" THEN up("paper")
     ELSE IF t = "UpgradeScissor" THEN up("scissor")
     ELSE [b EXCEPT !.rock.currentCharges = grant("rock"),
                    !.paper.currentCharges = grant("paper"),
                    !.scissor.currentCharges = grant("scissor")]

(* C33: applyLootToClone has the declared effect of the loot (Heal capped *)
(* at health.max, AddMaxHealth raising max and current, AddMaxArmor       *)
(* raising max and current capped at the new max, an upgrade adding to    *)
(* the atk and def of its move, granted charges capped at 3), changes     *)
(* nothing else, and leaves current <= max for health and armor and the   *)
(* charges in -1..3.                                                      *)
C33_ApplyLootEffects ==
  LootApplied =>
    /\ state.player = DeclaredEffect(walk.before.player, node)
    /\ state = [walk.before EXCEPT !.player = state.player]
    /\ FighterOk(state.player)

(* a Heal that the cap at health.max cuts short *)
C33_Witness ==
  /\ LootApplied
  /\ node.boonTypeString = "Heal"
  /\ walk.before.player.health.current + node.selectedVal1
       > walk.before.player.health.max
  /\ state.player.health.current = state.player.health.max

(* granted charges that the cap at 3 cuts short *)
C33_ChargeCap ==
  /\ LootApplied
  /\ "grantCharges" \in DOMAIN node
  /\ \E m \in MoveType :
       /\ walk.before.player[m].currentCharges + node.grantCharges[m] > 3
       /\ state.player[m].currentCharges = 3

-----------------------------------------------------------------------------
(* One decision step by step: the call stack of expectimaxSearch with the  *)
(* position of the two loops of each call, and the loop of runSim on the   *)
(* base copy and then on the copy with the loot.  The memo map is kept by  *)
(* its keys; the values play no part in which calls are made.              *)

(* call-stack frames a decision may hold; the search needs MinHorizon + 1 *)
MaxFrames == 8

(* a recursive call at the depth of its caller *)
childDepthSame(depth) == depth

(* the depth of a recursive call *)
childDepth(depth) == depth - 1

Frame(s, depth) == [s |-> s, depth |-> depth, a |-> 1, r |-> 1]

top == walk.stack[Len(walk.stack)]

(* expectimaxSearch, line 270: the base case *)
isLeaf(f) ==
  \/ f.depth <= 0
  \/ f.s.player.health.current <= 0
  \/ f.s.currentEnemyIndex >= Len(f.s.enemies)

(* the call has just been entered: no iteration of its loops has run *)
justEntered(f) == f.a = 1 /\ f.r = 1

(* the frame after one more iteration of the loop over the enemy moves *)
afterChild(f) ==
  IF f.r < Len(enemyMoves(currentEnemy(f.s))) THEN [f EXCEPT !.r = @ + 1]
  ELSE [f EXCEPT !.a = @ + 1, !.r = 1]

(* the stack once the call on top has returned to its caller *)
returned(stack) ==
  IF Len(stack) = 1 THEN <<>>
  ELSE [SubSeq(stack, 1, Len(stack) - 1) EXCEPT ![Len(stack) - 1] = afterChild(@)]

RunSearchRoots ==
  {s \in SecondEnemyRoots : s.enemies[2].health.current = 0}
  \cup {RunState(Fighter(2, MaxHealth, 0, MaxArmor, prof, ch),
                 <<Fighter(2, 2, 0, MaxArmor, <<<<2, 0>>, <<1, 0>>, <<1, 1>>>>, ec)>>,
                 0, FALSE, <<>>) :
          prof \in PlayerProfiles, ch \in {<<-1, 1, -1>>, <<1, 0, 3>>},
          ec \in {<<3, 3, 3>>, <<0, 0, -1>>}}

RunLootRoots ==
  {s \in LootSnapshots : s.player.rock.currentATK = 2 /\ s.player.armor.current = 0}

RunOffers == {Loot("Heal", 10, 0), Loot("UpgradeRock", 2, 0)}

InitRun ==
  /\ config = DPAlgorithm([maxHorizon |-> 1, evaluateFn |-> "default",
                           lethalOverride |-> FALSE])
  /\ memo = EmptyMemo
  /\ result = "none"
  /\ \/ /\ state \in RunSearchRoots
        /\ node = NoNode
        /\ walk = [mode |-> "search",
                   stack |-> <<Frame(state, config.maxHorizon)>>]
     \/ /\ state \in RunLootRoots
        /\ node \in RunOffers
        /\ walk = [mode |-> "sim", side |-> "base", r |-> 0, clone |-> state]

Searching == walk.mode = "search" /\ result = "none"

(* the call on top returns; the last return ends the decision *)
Return ==
  /\ walk' = [walk EXCEPT !.stack = returned(@)]
  /\ result' = IF Len(walk.stack) = 1 THEN "done" ELSE result

(* line 270: depth 0, a dead player or an index past the enemies *)
RunLeaf ==
  /\ Searching
  /\ isLeaf(top)
  /\ Return
  /\ UNCHANGED <<state, config, memo, node>>

(* line 274: the key of the state is in the memo map *)
RunMemoHit ==
  /\ Searching
  /\ ~isLeaf(top)
  /\ justEntered(top)
  /\ buildStateKey(top.s, top.depth) \in DOMAIN memo
  /\ Return
  /\ UNCHANGED <<state, config, memo, node>>

(* line 277: no charged move *)
RunNoAction ==
  /\ Searching
  /\ ~isLeaf(top)
  /\ buildStateKey(top.s, top.depth) \notin DOMAIN memo
  /\ Len(getCombatActions(top.s)) = 0
  /\ Return
  /\ UNCHANGED <<state, config, memo, node>>

(* the loops are in progress on the call on top *)
InLoop ==
  /\ Searching
  /\ ~isLeaf(top)
  /\ justEntered(top) => buildStateKey(top.s, top.depth) \notin DOMAIN memo
  /\ top.a <= Len(getCombatActions(top.s))

(* calculateExpectedValue, line 298: the current enemy is at 0 health and *)
(* the action is valued by evaluateFn without a recursive call            *)
RunEnemyDown ==
  /\ InLoop
  /\ currentEnemy(top.s).health.current <= 0
  /\ walk' = [walk EXCEPT !.stack[Len(walk.stack)].a = @ + 1]
  /\ UNCHANGED <<state, config, memo, result, node>>

(* calculateExpectedValue, lines 310-318: one enemy move, the round on a *)
(* clone and the recursive call                                          *)
RunDescend ==
  /\ InLoop
  /\ currentEnemy(top.s).health.current > 0
  /\ Len(walk.stack) < MaxFrames
  /\ walk' = [walk EXCEPT !.stack =
       Append(@, Frame(nextState(top.s,
                                 actionToMoveType(getCombatActions(top.s)[top.a]),
                                 enemyMoves(currentEnemy(top.s)), top.r),
                       childDepth(top.depth)))]
  /\ UNCHANGED <<state, config, memo, result, node>>

(* lines 291-293: the loop over the actions is over, the result is stored *)
RunStore ==
  /\ Searching
  /\ ~isLeaf(top)
  /\ top.a > Len(getCombatActions(top.s))
  /\ Len(getCombatActions(top.s)) > 0
  /\ memo' = (buildStateKey(top.s, top.depth) :> TRUE) @@ memo
  /\ Return
  /\ UNCHANGED <<state, config, node>>

Simulating == walk.mode = "sim" /\ result = "none"

(* the tests at the head of the loop of runSim *)
simGoesOn(w) ==
  /\ w.r < SimRounds
  /\ w.clone.player.health.current > 0
  /\ w.clone.currentEnemyIndex < Len(w.clone.enemies)

(* one iteration of the loop of runSim *)
RunSimRound ==
  /\ Simulating
  /\ simGoesOn(walk)
  /\ walk' = [walk EXCEPT
       !.clone = advanceEnemy(simApplyRound(@, greedyOrRock(@.player),
                                            greedyOrRock(currentEnemy(@)))),
       !.r = @ + 1]
  /\ UNCHANGED <<state, config, memo, result, node>>

(* runSim returns: the copy with the loot is simulated after the base copy *)
RunSimEnd ==
  /\ Simulating
  /\ ~simGoesOn(walk)
  /\ IF walk.side = "base"
     THEN /\ walk' = [walk EXCEPT !.side = "mod", !.r = 0,
                                  !.clone = applyLootToClone(state, node)]
          /\ result' = result
     ELSE /\ walk' = walk
          /\ result' = "done"
  /\ UNCHANGED <<state, config, memo, node>>

NextRun ==
  \/ RunLeaf \/ RunMemoHit \/ RunNoAction \/ RunEnemyDown \/ RunDescend
  \/ RunStore \/ RunSimRound \/ RunSimEnd

SpecRun == InitRun /\ [][NextRun]_vars

-----------------------------------------------------------------------------
(* C34 *)

Done == result = "done"

(* the calls on the stack: the root at maxHorizon, each call one less than *)
(* its caller, every caller above depth 0 with a living player and an     *)
(* enemy at the index, and its loops within 3 actions x 3 enemy moves     *)
StackShape ==
  walk.mode = "search" =>
    /\ Len(walk.stack) <= MinHorizon + 1
    /\ Len(walk.stack) >= 1 => walk.stack[1].depth = config.maxHorizon
    /\ \A i \in 1..Len(walk.stack) :
         /\ walk.stack[i].depth >= 0
         /\ walk.stack[i].a \in 1..4
         /\ walk.stack[i].r \in 1..3
         /\ i < Len(walk.stack) =>
              /\ walk.stack[i + 1].depth = walk.stack[i].depth - 1
              /\ walk.stack[i].depth > 0
              /\ walk.stack[i].s.player.health.current > 0
              /\ walk.stack[i].s.currentEnemyIndex < Len(walk.stack[i].s.enemies)
              /\ walk.stack[i].a <= 3

(* runSim has played at most SimRounds rounds on the copy at hand *)
SimBound == walk.mode = "sim" => walk.r \in 0..SimRounds

(* a decision that is not over has a next step *)
NeverStuck ==
  (walk.mode = "search" /\ ~Done)
    => /\ Len(walk.stack) >= 1
       /\ (~isLeaf(top) /\ top.a <= Len(getCombatActions(top.s))
             /\ currentEnemy(top.s).health.current > 0)
            => Len(walk.stack) < MaxFrames

RECURSIVE callCost(_)

(* more than the steps of a call at depth d with 3 actions x 3 enemy moves *)
callCost(d) == IF d < 0 THEN 0 ELSE 9 * callCost(d - 1) + 5

(* the iterations of the two loops a frame has not finished *)
slotsLeft(f) == IF f.a > 3 THEN 0 ELSE (3 - f.a) * 3 + (4 - f.r)

(* the steps left to the call of frame i: the recursive calls it has not *)
(* made, at the cost of a call one level down, and its own steps         *)
frameCost(i) ==
  LET f == walk.stack[i]
  IN (slotsLeft(f) - (IF i < Len(walk.stack) THEN 1 ELSE 0)) * callCost(f.depth - 1)
       + (5 - f.a)

RECURSIVE sumCost(_)

sumCost(i) == IF i = 0 THEN 0 ELSE frameCost(i) + sumCost(i - 1)

(* a bound on the steps left to the decision *)
StepsLeft ==
  IF Done THEN 0
  ELSE IF walk.mode = "search" THEN sumCost(Len(walk.stack))
  ELSE (IF walk.side = "base" THEN SimRounds + 2 ELSE 0) + (SimRounds - walk.r) + 1

(* C34: every decision terminates: each recursive search call has the    *)
(* depth of its caller less one, the recursion stops at depth 0, at the  *)
(* death of the player and at an index past the enemies, a call runs at  *)
(* most 3 actions x 3 enemy moves, and the loot micro-simulation plays   *)
(* at most 3 rounds per side; every step of a decision lowers a natural  *)
(* number and a decision that is not over has a next step.               *)
C34_DecisionTerminates ==
  [][/\ StackShape /\ SimBound /\ NeverStuck
     /\ StackShape' /\ SimBound' /\ NeverStuck'
     /\ StepsLeft >= 0 /\ StepsLeft' >= 0
     /\ StepsLeft' < StepsLeft]_vars

(* a search that went down to depth 0 and came back, ended *)
C34_Witness ==
  /\ Done
  /\ walk.mode = "search"
  /\ \E k \in DOMAIN memo : k[2] = 1

(* a micro-simulation that played all its rounds on the copy with the loot *)
C34_SimRanOut == Done /\ walk.mode = "sim" /\ walk.r = SimRounds

-----------------------------------------------------------------------------
(* Legal moves along a sequence of rounds *)

(* a fighter with a move to play and at most one exhausted move *)
Usable(f) ==
  /\ \E m \in MoveType : f[m].currentCharges > 0
  /\ Cardinality({m \in MoveType : f[m].currentCharges = -1}) <= 1

(* the enemy on the node that plays the next round, after that round *)
EnemyNext == node'.enemies[node.currentEnemyIndex + 1]

RoundKeepsUsable ==
  /\ Usable(node.player) =>
       /\ node.player[walk'.pMove].currentCharges > 0
       /\ Usable(node'.player)
  /\ Usable(currentEnemy(node)) =>
       /\ currentEnemy(node)[walk'.eMove].currentCharges > 0
       /\ Usable(EnemyNext)

(* C35: a fighter with a move of charges > 0 and at most one move at -1    *)
(* plays a move of charges > 0 in every round and has both properties      *)
(* again after it, so that no round leads such a fighter to a state        *)
(* without a usable move: the player's empty action list and the enemy's   *)
(* rock fallback are met only below fighters that had two moves at -1 or   *)
(* no usable move.                                                         *)
C35_LegalMoveInvariant == [][RoundKeepsUsable]_vars

(* a search round in which the player spent the last charge of a move   *)
(* while another of its moves was exhausted, and kept a move to play    *)
C35_Witness ==
  /\ Played
  /\ walk.mode = "search"
  /\ Usable(walk.before.player)
  /\ walk.before.player[walk.pMove].currentCharges = 1
  /\ \E m \in MoveType : walk.before.player[m].currentCharges = -1
  /\ node.player[walk.pMove].currentCharges = -1
  /\ Usable(node.player)
  /\ Usable(EnemyBefore)
  /\ Usable(EnemyAfter)

(* a player with two exhausted moves left without a move after a round *)
C35_TwoExhausted ==
  /\ Played
  /\ Cardinality({m \in MoveType : walk.before.player[m].currentCharges = -1}) = 2
  /\ LegalMoves(node) = {}

-----------------------------------------------------------------------------
(* The two round functions *)

LivingEnemy(s) == hasEnemy(s) /\ currentEnemy(s).health.current > 0

(* C36: on every state with a living current enemy and for every pair of *)
(* moves, the round of the loot micro-simulation yields the same state   *)
(* as applyRoundOutcome.                                                 *)
C36_KernelEquivalence ==
  LivingEnemy(node) =>
    \A pMove \in MoveType : \A eMove \in MoveType :
      simApplyRound(node, pMove, eMove) = applyRoundOutcome(node, pMove, eMove)

(* a tie in which both fighters lose health, the player spends the last *)
(* charge of its move and an exhausted move of the enemy recovers       *)
C36_Witness ==
  /\ Played
  /\ LivingEnemy(node)
  /\ \E pMove \in MoveType :
       LET o == simApplyRound(node, pMove, pMove)
       IN /\ o = applyRoundOutcome(node, pMove, pMove)
          /\ o.player.health.current < node.player.health.current
          /\ currentEnemy(o).health.current < currentEnemy(node).health.current
          /\ node.player[pMove].currentCharges = 1
          /\ o.player[pMove].currentCharges = -1
          /\ \E m \in MoveType :
               /\ currentEnemy(node)[m].currentCharges = -1
               /\ currentEnemy(o)[m].currentCharges = 0

-----------------------------------------------------------------------------
(* Auto-play of the dashboard: the stores in state, the values of the last *)
(* render in node, the two refs and the active runAutoPlayChain calls in   *)
(* walk, the way the last chain ended in result.                           *)

(* the step budget of a chain: let steps = 600, lowered *)
MaxSteps == 2

Algorithms == {"dp", "manual"}

(* useAlgorithmStore, useGigaverseStore and balanceChangesHistory: run is *)
(* "none" without dungeonState.run, "over" when the player is dead or the *)
(* dungeon complete; hist flips when the history array is replaced        *)
Store(autoPlay, run, algo, hist) ==
  [autoPlay |-> autoPlay, run |-> run, selectedAlgorithm |-> algo, hist |-> hist]

(* a call of runAutoPlayChain past its guard, with the callbacks of the *)
(* render that made it                                                  *)
Chain(algo) ==
  [pc |-> "start", steps |-> MaxSteps, moves |-> 0, algo |-> algo, exit |-> "end"]

(* while (autoPlayRef.current) without the budget *)
loopTestNoCap(ref, steps) == ref

(* while (autoPlayRef.current && steps > 0) *)
loopTest(ref, steps) == ref /\ steps > 0

(* checkRunOverAndRefresh up to its await: without a run in progress it *)
(* switches autoPlay off and awaits refreshDungeon                      *)
runIsOver(st) == st.run # "on"

(* the call after the loop *)
finalCheck(st, c) ==
  [c |-> [c EXCEPT !.pc = IF runIsOver(st) THEN "finalRefresh" ELSE "finalCheck"],
   autoPlay |-> st.autoPlay /\ ~runIsOver(st)]

(* from the loop test to the next await *)
loopHead(st, ref, c) ==
  IF loopTest(ref, c.steps)
  THEN IF runIsOver(st)
       THEN [c |-> [c EXCEPT !.pc = "loopRefresh", !.exit = "break"],
             autoPlay |-> FALSE]
       ELSE [c |-> [c EXCEPT !.pc = "loopCheck"], autoPlay |-> st.autoPlay]
  ELSE finalCheck(st, c)

(* getRecommendedMove of the chain's render: null without a run, in manual *)
(* mode, or when algoRefs holds no instance of the chain's algorithm       *)
hasRecommendedMove(st, rendered, c) ==
  /\ st.run # "none"
  /\ c.algo # "manual"
  /\ rendered.selectedAlgorithm = c.algo

(* what refreshDungeon may fetch *)
refreshedRuns(run) == IF run = "over" THEN {"over", "none"} ELSE {run}

dropAt(seq, i) == SubSeq(seq, 1, i - 1) \o SubSeq(seq, i + 1, Len(seq))

Mounted == node # NoNode

InitAuto ==
  /\ state \in {Store(ap, run, algo, FALSE) :
                  ap \in BOOLEAN, run \in {"none", "on"}, algo \in Algorithms}
  /\ node = NoNode
  /\ walk = [isAutoPlayingRef |-> FALSE, autoPlayRef |-> state.autoPlay,
             chains |-> <<>>]
  /\ result = [exit |-> "none", moves |-> 0]
  /\ config = NoNode
  /\ memo = EmptyMemo

(* onClick of the auto-play button, shown on a run in a mode other than manual *)
Toggle ==
  /\ Mounted
  /\ node.run # "none"
  /\ node.selectedAlgorithm # "manual"
  /\ state' = [state EXCEPT !.autoPlay = ~node.autoPlay]
  /\ UNCHANGED <<config, memo, result, node, walk>>

SelectAlgorithm ==
  /\ \E algo \in Algorithms \ {state.selectedAlgorithm} :
       state' = [state EXCEPT !.selectedAlgorithm = algo]
  /\ UNCHANGED <<config, memo, result, node, walk>>

(* handleStartRun from the dungeon list, shown without a run *)
handleStartRun ==
  /\ Mounted
  /\ node.run = "none"
  /\ state.run = "none"
  /\ state' = [state EXCEPT !.run = "on", !.hist = ~@]
  /\ UNCHANGED <<config, memo, result, node, walk>>

(* a render and its effects: the refs are synchronised when autoPlay       *)
(* changed, and the auto-play effect runs when autoPlay or runAutoPlayChain *)
(* changed, runAutoPlayChain running up to its first await                  *)
Render ==
  /\ node # state
  /\ LET mount     == ~Mounted
         apChanged == mount \/ node.autoPlay # state.autoPlay
         cbChanged == \/ mount
                      \/ node.selectedAlgorithm # state.selectedAlgorithm
                      \/ node.hist # state.hist
         ref       == IF apChanged THEN state.autoPlay ELSE walk.autoPlayRef
         starts    == /\ apChanged \/ cbChanged
                      /\ state.autoPlay
                      /\ ~walk.isAutoPlayingRef
         h         == loopHead(state, ref, Chain(state.selectedAlgorithm))
     IN /\ node' = state
        /\ IF starts
           THEN /\ walk' = [isAutoPlayingRef |-> TRUE, autoPlayRef |-> ref,
                            chains |-> Append(walk.chains, h.c)]
                /\ state' = [state EXCEPT !.autoPlay = h.autoPlay]
           ELSE /\ walk' = [walk EXCEPT !.autoPlayRef = ref]
                /\ UNCHANGED state
  /\ UNCHANGED <<config, memo, result>>

(* refreshDungeon of the check inside the loop resolves: the loop breaks *)
ChainLoopRefreshed ==
  \E i \in 1..Len(walk.chains) : \E run \in refreshedRuns(state.run) :
    LET st == [state EXCEPT !.run = run]
        h  == finalCheck(st, walk.chains[i])
    IN /\ walk.chains[i].pc = "loopRefresh"
       /\ state' = [st EXCEPT !.autoPlay = h.autoPlay]
       /\ walk' = [walk EXCEPT !.chains[i] = h.c]
       /\ UNCHANGED <<config, memo, result, node>>

(* the check inside the loop returned false: a move is asked for and played *)
ChainLoopChecked ==
  \E i \in 1..Len(walk.chains) :
    LET c == walk.chains[i]
        h == finalCheck(state, [c EXCEPT !.exit = "break"])
    IN /\ c.pc = "loopCheck"
       /\ IF hasRecommendedMove(state, node, c)
          THEN /\ walk' = [walk EXCEPT !.chains[i] =
                             [c EXCEPT !.pc = "playing", !.moves = @ + 1]]
               /\ UNCHANGED state
          ELSE /\ walk' = [walk EXCEPT !.chains[i] = h.c]
               /\ state' = [state EXCEPT !.autoPlay = h.autoPlay]
       /\ UNCHANGED <<config, memo, result, node>>

(* handlePlayMove resolves, with or without balance changes, and the loop *)
(* goes round                                                             *)
ChainPlayed ==
  \E i \in 1..Len(walk.chains) :
    \E run \in (IF state.run = "on" THEN {"on", "over"} ELSE {state.run}) :
      \E hist \in BOOLEAN :
        LET c  == [walk.chains[i] EXCEPT !.steps = @ - 1]
            st == [state EXCEPT !.run = run, !.hist = hist]
            h  == loopHead(st, walk.autoPlayRef, c)
        IN /\ walk.chains[i].pc = "playing"
           /\ state' = [st EXCEPT !.autoPlay = h.autoPlay]
           /\ walk' = [walk EXCEPT !.chains[i] = h.c]
           /\ UNCHANGED <<config, memo, result, node>>

(* the check after the loop resolves: finally *)
ChainFinished ==
  \E i \in 1..Len(walk.chains) :
    \E run \in (IF walk.chains[i].pc = "finalRefresh"
                THEN refreshedRuns(state.run) ELSE {state.run}) :
      /\ walk.chains[i].pc \in {"finalCheck", "finalRefresh"}
      /\ state' = [state EXCEPT !.run = run]
      /\ walk' = [walk EXCEPT !.isAutoPlayingRef = FALSE,
                              !.chains = dropAt(@, i)]
      /\ result' = [exit |-> walk.chains[i].exit, moves |-> walk.chains[i].moves]
      /\ UNCHANGED <<config, memo, node>>

(* refreshDungeon rejects: catch, then finally *)
ChainThrew ==
  \E i \in 1..Len(walk.chains) :
    /\ walk.chains[i].pc \in {"loopRefresh", "finalRefresh"}
    /\ walk' = [walk EXCEPT !.isAutoPlayingRef = FALSE,
                            !.chains = dropAt(@, i)]
    /\ result' = [exit |-> "error", moves |-> walk.chains[i].moves]
    /\ UNCHANGED <<state, config, memo, node>>

ChainStep ==
  ChainLoopRefreshed \/ ChainLoopChecked \/ ChainPlayed \/ ChainFinished

NextAuto ==
  \/ Toggle
  \/ SelectAlgorithm
  \/ handleStartRun
  \/ Render
  \/ ChainLoopRefreshed
  \/ ChainLoopChecked
  \/ ChainPlayed
  \/ ChainFinished
  \/ ChainThrew

SpecAuto == InitAuto /\ [][NextAuto]_vars

(* renders are made and pending awaits resolve *)
SpecAutoFair ==
  InitAuto /\ [][NextAuto]_vars /\ WF_vars(Render) /\ WF_vars(ChainStep)

-----------------------------------------------------------------------------
(* Auto-play: exclusion *)

(* C37: whatever the order of toggles, renders and resolving awaits, at  *)
(* most one runAutoPlayChain loop is active, a chain plays at most the   *)
(* step budget of moves, and isAutoPlayingRef is false again whenever no *)
(* chain is left, however the chain ended.                               *)
C37_OneChain ==
  /\ Len(walk.chains) <= 1
  /\ \A i \in 1..Len(walk.chains) :
       /\ walk.chains[i].moves <= MaxSteps
       /\ walk.chains[i].steps >= 0
  /\ walk.isAutoPlayingRef <=> (walk.chains # <<>>)
  /\ result.moves <= MaxSteps

(* a chain left its loop on autoPlayRef being false with budget left, and *)
(* the effect then ran with autoPlay on again and started no second chain *)
C37_Witness ==
  /\ Len(walk.chains) = 1
  /\ walk.chains[1].pc \in {"finalCheck", "finalRefresh"}
  /\ walk.chains[1].exit = "end"
  /\ walk.chains[1].moves < MaxSteps
  /\ walk.isAutoPlayingRef
  /\ Mounted
  /\ node = state
  /\ state.autoPlay
  /\ walk.autoPlayRef

(* a chain ended by a thrown error with the ref reset *)
C37_ErrorExit ==
  /\ result.exit = "error"
  /\ ~walk.isAutoPlayingRef

(* a chain ended by a break after its whole budget but one *)
C37_BreakExit ==
  /\ result.exit = "break"
  /\ ~walk.isAutoPlayingRef

(* a chain ended having played its whole budget *)
C37_BudgetExit ==
  /\ result.exit = "end"
  /\ result.moves = MaxSteps
  /\ ~walk.isAutoPlayingRef

-----------------------------------------------------------------------------
(* Auto-play: progress *)

(* autoPlay is on, a run is in progress and a move can be recommended *)
AutoPlayWanted ==
  /\ state.autoPlay
  /\ state.run = "on"
  /\ state.selectedAlgorithm # "manual"

ChainRunning == walk.chains # <<>>

(* C38: whenever autoPlay is on, a run is in progress and a move can be *)
(* recommended, a chain is running or one is started later, unless      *)
(* autoPlay is switched off, the run ends or the mode becomes manual    *)
(* first.                                                               *)
C38_ChainEventuallyRuns == AutoPlayWanted ~> (ChainRunning \/ ~AutoPlayWanted)

(* a chain played its whole budget and ended; autoPlay is on, the run is *)
(* in progress, everything is rendered and no chain is running           *)
C38_BudgetSpent ==
  /\ AutoPlayWanted
  /\ ~ChainRunning
  /\ node = state
  /\ result.exit = "end"
  /\ result.moves = MaxSteps

====
